---- MODULE Spec2Model ----
(***************************************************************************)
(* TM38 slab-on-ground calculators: the thickness searches, the stress     *)
(* equations they evaluate, the subgrade and concrete derivations, and the *)
(* governing-case reduction of each calculator.                            *)
(*                                                                         *)
(* Numbers.  A JavaScript number is held as an integer count of            *)
(* thousandths (S == 1000), so 1.5 is 1500 and a stress in MPa is held in  *)
(* kPa.  NaN, +Infinity and -Infinity are the three values NaN, PosInf and *)
(* NegInf, outside the finite range, and every arithmetic operator treats  *)
(* them as IEEE-754 does.  Math.log, Math.sqrt and Math.pow are computed   *)
(* in integer arithmetic to about three significant digits; a non-zero     *)
(* quotient or product never rounds to zero, as it would not in a double.  *)
(* Signed zero is not distinguished.                                       *)
(***************************************************************************)
EXTENDS Integers, Sequences, FiniteSets, TLC

S == 1000

NaN == 2000000003
PosInf == 2000000001
NegInf == -2000000001

\* The two results of a search that are not numbers: the string '>800' and
\* null.
GT800 == 2000000007
Null == 2000000005

IsNaN(x) == x = NaN
IsFinite(x) == x > NegInf /\ x < PosInf

\* An integer literal n of the source, as a number.
F(n) == n * S

\* Comparisons: every comparison with NaN is false.
Le(a, b) == b # NaN /\ a # NaN /\ a <= b
Lt(a, b) == b # NaN /\ a # NaN /\ a < b
Ge(a, b) == Le(b, a)
Gt(a, b) == Lt(b, a)

Abs(x) == IF x < 0 THEN -x ELSE x
Sgn(x) == IF x < 0 THEN -1 ELSE IF x > 0 THEN 1 ELSE 0

AtLeastOne(m) == IF m = 0 THEN 1 ELSE m

\* x * y / c for x >= y >= 0 and c > 0, with x and c scaled down together
\* by q.
MulDivScaled(x, y, c, q) ==
    LET xs == x \div q
        cs == AtLeastOne(c \div q)
    IN ((xs \div cs) * y) + (((xs % cs) * y) \div cs)

\* The least q for which c / q times y stays within 32 bits.
MulDivScale(c, lim) == IF c <= lim THEN 1 ELSE (c \div lim) + 1

MulDivOrdered(x, y, c) == MulDivScaled(x, y, c, MulDivScale(c, 2147483647 \div AtLeastOne(y)))

\* a * b / c on non-negative integers, c > 0, without leaving 32 bits when
\* the result fits: an exact split when c times the smaller factor fits,
\* otherwise the larger factor and the divisor are first scaled down
\* together by the least q that makes it fit.
MulDivNat(a, b, c) == IF a >= b THEN MulDivOrdered(a, b, c) ELSE MulDivOrdered(b, a, c)

\* a * b / c with signs, rounded towards zero; a non-zero exact result is
\* at least one unit in magnitude.
MulDiv(a, b, c) ==
    IF a = 0 \/ b = 0 THEN 0
    ELSE Sgn(a) * Sgn(b) * Sgn(c) * AtLeastOne(MulDivNat(Abs(a), Abs(b), Abs(c)))

Neg(a) == IF a = NaN THEN NaN ELSE -a

Add(a, b) ==
    IF a = NaN \/ b = NaN THEN NaN
    ELSE IF a = PosInf THEN (IF b = NegInf THEN NaN ELSE PosInf)
    ELSE IF a = NegInf THEN (IF b = PosInf THEN NaN ELSE NegInf)
    ELSE IF b = PosInf \/ b = NegInf THEN b
    ELSE a + b

Sub(a, b) == Add(a, Neg(b))

Mul(a, b) ==
    IF a = NaN \/ b = NaN THEN NaN
    ELSE IF ~IsFinite(a) \/ ~IsFinite(b)
         THEN (IF a = 0 \/ b = 0 THEN NaN
               ELSE IF Sgn(a) * Sgn(b) > 0 THEN PosInf ELSE NegInf)
    ELSE MulDiv(a, b, S)

Div(a, b) ==
    IF a = NaN \/ b = NaN THEN NaN
    ELSE IF ~IsFinite(a)
         THEN (IF ~IsFinite(b) THEN NaN
               ELSE IF Sgn(a) * (IF b < 0 THEN -1 ELSE 1) > 0 THEN PosInf ELSE NegInf)
    ELSE IF ~IsFinite(b) THEN 0
    ELSE IF b = 0
         THEN (IF a = 0 THEN NaN ELSE IF a > 0 THEN PosInf ELSE NegInf)
    ELSE MulDiv(a, S, b)

\* x * (num / den) for a decimal literal num/den of the source (0.0846 is
\* 846/10000), which keeps the literal's digits.
Times(x, num, den) ==
    IF x = NaN THEN NaN
    ELSE IF ~IsFinite(x) THEN (IF num = 0 THEN NaN
                               ELSE IF Sgn(x) * Sgn(num) > 0 THEN PosInf ELSE NegInf)
    ELSE MulDiv(x, num, den)

\* Integer square root (Newton's iteration from above).
RECURSIVE ISqrtFrom(_, _)
ISqrtFrom(n, r) ==
    LET r2 == (r + n \div r) \div 2
    IN IF r2 >= r THEN r ELSE ISqrtFrom(n, r2)

ISqrt(n) == IF n <= 0 THEN 0 ELSE IF n < 4 THEN 1 ELSE ISqrtFrom(n, IF n > 46340 THEN 46340 ELSE n)

\* Math.sqrt
Sqrt(x) ==
    IF x = NaN \/ x < 0 THEN NaN
    ELSE IF x = PosInf THEN PosInf
    ELSE IF x = 0 THEN 0
    ELSE IF x < 2000000 THEN AtLeastOne(ISqrt(x * S))
    ELSE (ISqrt(x) * 31623) \div 1000

\* m * sqrt(1 + r * r), r = n / m, for m >= n >= 0.
SqrtOnePlusSquare(r) == Sqrt(S + MulDiv(r, r, S))
ScaledHypotenuse(m, n) == IF m = 0 THEN 0 ELSE MulDiv(m, SqrtOnePlusSquare(MulDiv(n, S, m)), S)
OrderedHypotenuse(ax, ay) == IF ax >= ay THEN ScaledHypotenuse(ax, ay) ELSE ScaledHypotenuse(ay, ax)

\* Math.sqrt(x * x + y * y): the squares are wider than 32 bits, so the
\* larger operand is factored out.
SqrtSumSquares(x, y) ==
    IF x = NaN \/ y = NaN THEN NaN
    ELSE IF ~IsFinite(x) \/ ~IsFinite(y) THEN PosInf
    ELSE OrderedHypotenuse(Abs(x), Abs(y))

\* The binary exponent e of a finite x > 0: x = m * 2^e with 1 <= m < 2.
BinaryExponent(x) ==
    IF x >= S THEN CHOOSE i \in 0..21 : (2^i) * S <= x /\ x \div (2^i) < 2 * S
    ELSE -(CHOOSE i \in 1..10 : x * (2^i) >= S /\ x * (2^(i-1)) < S)

\* The mantissa m of x = m * 2^e, in ten-thousandths.
Mantissa(x, e) == IF e >= 0 THEN MulDivNat(x, 10000, (2^e) * S) ELSE x * (2^(-e)) * 10

\* 2 atanh(z) = 2 (z + z^3/3 + z^5/5 + z^7/7), in ten-thousandths.
AtanhSeries(z, z2) ==
    LET z3 == (z * z2) \div 10000
        z5 == (z3 * z2) \div 10000
        z7 == (z5 * z2) \div 10000
    IN 2 * (z + z3 \div 3 + z5 \div 5 + z7 \div 7)

LnOfRatio(z) == AtanhSeries(z, (z * z) \div 10000)

\* ln m for 1 <= m < 2: 2 atanh((m - 1) / (m + 1)).
LnMantissa(m) == LnOfRatio(((m - 10000) * 10000) \div (m + 10000))

Ln4From(x, e) == e * 6931 + (e * 47) \div 100 + LnMantissa(Mantissa(x, e))

\* Natural logarithm in ten-thousandths of a finite x > 0.
Ln4(x) == Ln4From(x, BinaryExponent(x))

\* e^(r / 10000) for 0 <= r < ln 2, in ten-thousandths.
ExpSeries(r) ==
    LET t2 == (r * r) \div 20000
        t3 == (t2 * r) \div 30000
        t4 == (t3 * r) \div 40000
        t5 == (t4 * r) \div 50000
        t6 == (t5 * r) \div 60000
    IN 10000 + r + t2 + t3 + t4 + t5 + t6

NonNegativeInt(r0) == IF r0 < 0 THEN 0 ELSE r0

\* er * 2^n / 10
ExpScaled(er, n) ==
    IF n >= 0 THEN MulDivNat(er, 2^n, 10)
    ELSE IF n < -24 THEN 0 ELSE er \div ((2^(-n)) * 10)

Exp4From(v, n) == AtLeastOne(ExpScaled(ExpSeries(NonNegativeInt(v - n * 6931 - (n * 47) \div 100)), n))

\* e^(v / 10000) in thousandths, v finite.
Exp4(v) == Exp4From(v, v \div 6931)

\* Math.log
Ln(x) ==
    IF x = NaN \/ x < 0 THEN NaN
    ELSE IF x = PosInf THEN PosInf
    ELSE IF x = 0 THEN NegInf
    ELSE (Ln4(x) + 5) \div 10

\* Math.pow(x, num / den) for a non-integer exponent num/den.
Pow(x, num, den) ==
    IF x = NaN \/ x < 0 THEN NaN
    ELSE IF x = 0 THEN (IF num > 0 THEN 0 ELSE PosInf)
    ELSE IF x = PosInf THEN (IF num > 0 THEN PosInf ELSE 0)
    ELSE Exp4(MulDiv(Ln4(x), num, den))

(***************************************************************************)
(* src/BackToBackRackCalculator.tsx: the calculation functions shared by   *)
(* the point, single-rack, back-to-back and wheel calculators.             *)
(***************************************************************************)
POISSON_RATIO == 150
LOAD_FACTOR == 1500
PI == 3142

\* !x of a number: 0 and NaN are falsy.
Falsy(x) == x = 0 \/ x = NaN

\* parseFloat of a value that is a number already or the string '>800'.
ParseFloat(v) == IF v = GT800 \/ v = Null THEN NaN ELSE v

\* Truthiness of a result field.
Truthy(v) == v # 0 /\ v # NaN /\ v # Null

calculateKFromCBR(cbr) ==
    IF Le(cbr, 0) THEN 0
    ELSE IF Lt(cbr, F(30)) THEN Add(Times(Ln(cbr), 225, 10), 1430)
    ELSE Sub(Times(Ln(cbr), 1092, 10), 293320)

calculateCBRFromScala(scala) ==
    IF Le(scala, 0) THEN 0
    ELSE Times(Pow(scala, -10788, 10000), 31815, 100)

calculateModifiedK(k_subgrade, subbase_thickness) ==
    IF Le(subbase_thickness, 0) THEN k_subgrade
    ELSE IF Le(k_subgrade, 0) THEN 0
    ELSE IF IsNaN(k_subgrade) \/ IsNaN(subbase_thickness) THEN NaN
    ELSE LET \* 0.0612 * Math.log(k_subgrade) - 0.1029, in ten-thousandths
             slope == MulDiv(Ln4(k_subgrade), 612, 10000) - 1029
             term1 == MulDiv(subbase_thickness, slope, 10000)
             term2 == Sub(Times(k_subgrade, 8752, 10000), 1453)
         IN Add(term1, term2)

\* parseFloat(x.toFixed(2)): x rounded to hundredths.
ToFixed2(x) ==
    IF x = NaN \/ ~IsFinite(x) THEN x
    ELSE Sgn(x) * (((Abs(x) + 5) \div 10) * 10)

\* The effect of the shared-inputs screen: what it makes of sharedInputs.
InputParametersEffect(shared) ==
    LET cbr == IF shared.stiffnessMethod = "CBR" THEN shared.cbrValue
               ELSE calculateCBRFromScala(shared.scalaValue)
        k_subgrade == calculateKFromCBR(cbr)
        k_modified == calculateModifiedK(k_subgrade, shared.subbaseThickness)
        finalModulus == IF shared.useSubbase /\ ~IsNaN(k_modified) THEN k_modified
                        ELSE k_subgrade
    IN IF ~IsNaN(cbr) /\ Gt(cbr, 0)
       THEN [shared EXCEPT !.subgradeModulus = ToFixed2(k_subgrade),
                           !.finalModulus = ToFixed2(finalModulus)]
       ELSE shared

calculateEc(fc) == IF Gt(fc, 0) THEN Add(Mul(F(3320), Sqrt(fc)), F(6900)) ELSE 0

getK1(days) == IF Ge(days, F(90)) THEN 1100 ELSE 1000

\* parseFloat of a load-cycles option or of the digits of another count:
\* '< 8000' and 'Unlimited' do not start with a digit.
RepetitionOptions == {"< 8000", "10000", "30000", "50000", "100000", "200000", "300000", "400000"}

ParseRepetitions(str) ==
    CASE str = "10000" -> F(10000)
      [] str = "30000" -> F(30000)
      [] str = "50000" -> F(50000)
      [] str = "100000" -> F(100000)
      [] str = "200000" -> F(200000)
      [] str = "300000" -> F(300000)
      [] str = "400000" -> F(400000)
      [] str = "5000" -> F(5000)
      [] str = "8000" -> F(8000)
      [] str = "400001" -> F(400001)
      [] str = "1000000" -> F(1000000)
      [] OTHER -> NaN

\* Math.log10
Log10(x) == IF IsNaN(Ln(x)) \/ ~IsFinite(Ln(x)) THEN Ln(x) ELSE MulDiv(Ln4(x), 1000, 23026)

getK2(repetitionsStr) ==
    LET repetitions == ParseRepetitions(repetitionsStr)
        k2_calculated == Times(Sub(730, Times(Sub(Log10(repetitions), F(3)), 846, 10000)), 15, 10)
    IN IF IsNaN(repetitions) \/ Lt(repetitions, F(8000)) THEN 1000
       ELSE IF repetitionsStr = "Unlimited" THEN 750
       ELSE IF Ge(repetitions, F(8000)) /\ Le(repetitions, F(400000))
            THEN (IF Lt(k2_calculated, 750) THEN 750
                  ELSE IF Gt(k2_calculated, 1000) THEN 1000 ELSE k2_calculated)
       ELSE IF Gt(repetitions, F(400000)) THEN 770
       ELSE 1000

calculateAllowableStress(fc, days, repetitions, postTensionStress) ==
    IF Falsy(fc) \/ Le(fc, 0) THEN 0
    ELSE LET baseFr == Mul(Mul(Mul(456, getK1(days)), getK2(repetitions)), Pow(fc, 66, 100))
         IN Add(baseFr, postTensionStress)

\* The numerator Ec * h^3 * 1000 is wider than 32 bits, so the quotient and
\* its fourth root are taken through logarithms.
calculateL(Ec, h, k) ==
    IF Falsy(Ec) \/ Le(Ec, 0) \/ Falsy(h) \/ Le(h, 0) \/ Falsy(k) \/ Le(k, 0) THEN 0
    ELSE LET lnNumerator == Ln4(Ec) + 3 * Ln4(h) + Ln4(F(1000))
             denominator == Mul(Mul(F(12), Sub(F(1), Mul(POISSON_RATIO, POISSON_RATIO))), k)
         IN Exp4((lnNumerator - Ln4(denominator)) \div 4)

calculateRForPointLoad(shape, dim1, dim2) ==
    IF shape = "circular" THEN Div(dim1, F(2))
    ELSE Sqrt(Div(Mul(dim1, dim2), PI))

calculateB(r, h) ==
    IF r = 0 \/ h = 0 THEN 0
    ELSE IF Ge(r, Times(h, 172, 100)) THEN r
    ELSE Sub(Sqrt(Add(Times(Mul(r, r), 16, 10), Mul(h, h))), Times(h, 675, 1000))

\* P_tonnes * 9810
ForceN(P_tonnes) == Times(P_tonnes, 9810, 1)

\* stress > 0 ? stress : 0
PositiveOrZero(stress) == IF Gt(stress, 0) THEN stress ELSE 0

calculateSingleInteriorStress(P_tonnes, h, l, b) ==
    IF Le(h, 0) \/ Le(l, 0) \/ Le(b, 0) THEN 0
    ELSE LET P_N == ForceN(P_tonnes)
             stress == Mul(Div(Mul(Mul(275, Add(F(1), POISSON_RATIO)), P_N), Mul(h, h)),
                           Ln(Div(l, b)))
         IN PositiveOrZero(stress)

NoLoadTransferFactor_Always(stress, jointType, num, den) == Times(stress, num, den)

NoLoadTransferFactor(stress, jointType, num, den) ==
    IF jointType # "No Load Transfer" THEN Times(stress, num, den) ELSE stress

calculateSingleEdgeStress(P_tonnes, h, l, b, jointType) ==
    IF Le(h, 0) \/ Le(l, 0) \/ Le(b, 0) THEN 0
    ELSE LET P_N == ForceN(P_tonnes)
             raw == Mul(Div(Mul(Mul(529, Add(F(1), Times(POISSON_RATIO, 54, 100))), P_N), Mul(h, h)),
                        Ln(Div(l, b)))
             stress == NoLoadTransferFactor(raw, jointType, 85, 100)
         IN PositiveOrZero(stress)

calculateSingleCornerStress(P_tonnes, h, l, r, jointType) ==
    IF Le(h, 0) \/ Le(l, 0) \/ Le(r, 0) THEN 0
    ELSE LET P_N == ForceN(P_tonnes)
             raw == Mul(Div(Mul(F(3), P_N), Mul(h, h)),
                        Sub(F(1), Pow(Div(Mul(r, Sqrt(F(2))), l), 6, 10)))
             stress == NoLoadTransferFactor(raw, jointType, 7, 10)
         IN PositiveOrZero(stress)


\* --- Stress distribution and superposition ---

interpolateFrom_Step(points, x, i) ==
    IF \E j \in i..(Len(points) - 1) : Ge(x, points[j][1]) /\ Le(x, points[j + 1][1])
    THEN points[CHOOSE j \in i..(Len(points) - 1) :
                    Ge(x, points[j][1]) /\ Le(x, points[j + 1][1])][2]
    ELSE points[Len(points)][2]

RECURSIVE interpolateFrom(_, _, _)
interpolateFrom(points, x, i) ==
    IF i > Len(points) - 1 THEN points[Len(points)][2]
    ELSE IF Ge(x, points[i][1]) /\ Le(x, points[i + 1][1])
         THEN LET x1 == points[i][1]
                  y1 == points[i][2]
                  x2 == points[i + 1][1]
                  y2 == points[i + 1][2]
              IN Add(y1, Div(Mul(Sub(y2, y1), Sub(x, x1)), Sub(x2, x1)))
    ELSE interpolateFrom(points, x, i + 1)

interpolate(points, x) ==
    IF Le(x, points[1][1]) THEN points[1][2]
    ELSE IF Ge(x, points[Len(points)][1]) THEN points[Len(points)][2]
    ELSE interpolateFrom(points, x, 1)

interiorRadialPoints ==
    << <<0, F(100)>>, <<500, F(60)>>, <<F(1), F(25)>>, <<1500, F(5)>>, <<F(2), F(-5)>>,
       <<F(3), F(-8)>>, <<F(4), F(-5)>>, <<F(5), F(-2)>>, <<F(6), 0>> >>
interiorTangentialPoints ==
    << <<0, F(100)>>, <<500, F(80)>>, <<F(1), F(55)>>, <<1500, F(35)>>, <<F(2), F(20)>>,
       <<F(3), F(8)>>, <<F(4), F(2)>>, <<F(5), 0>>, <<F(6), 0>> >>
edgeRadialPoints ==
    << <<0, F(100)>>, <<500, F(50)>>, <<F(1), F(20)>>, <<1500, F(5)>>, <<F(2), F(-5)>>,
       <<F(3), F(-10)>>, <<F(4), F(-8)>>, <<F(5), F(-4)>>, <<F(6), 0>> >>

getStressContribution_Percent(distOverL, baseStress, type) ==
    IF type = "interior-radial"
    THEN Mul(baseStress, interpolate(interiorRadialPoints, distOverL))
    ELSE IF type = "interior-tangential"
    THEN Mul(baseStress, interpolate(interiorTangentialPoints, distOverL))
    ELSE IF type = "edge-radial"
    THEN Mul(baseStress, interpolate(edgeRadialPoints, distOverL))
    ELSE 0

getStressContribution(distOverL, baseStress, type) ==
    IF type = "interior-radial"
    THEN Div(Mul(baseStress, interpolate(interiorRadialPoints, distOverL)), F(100))
    ELSE IF type = "interior-tangential"
    THEN Div(Mul(baseStress, interpolate(interiorTangentialPoints, distOverL)), F(100))
    ELSE IF type = "edge-radial"
    THEN Div(Mul(baseStress, interpolate(edgeRadialPoints, distOverL)), F(100))
    ELSE 0

\* String.includes('edge') on the load-case and neighbour type names.
IncludesEdge(name) == name \in {"edge", "edgeLong", "edgeShort", "edgePerp", "edgePara"}

\* The curve id the forEach callback sets for the neighbour d: it is
\* chosen from d.type alone.
stressType(d) ==
    IF d.type = "interior" THEN "interior-tangential"
    ELSE IF IncludesEdge(d.type) THEN "edge-radial"
    ELSE ""

\* One pass of the forEach over the neighbour list: the contribution of
\* distances[i] and of every later entry.
RECURSIVE adjacentSum(_, _, _, _, _, _, _)
adjacentSum(distances, i, P_tonnes_unfactored, h, l, jointType, r_contact) ==
    IF i > Len(distances) THEN 0
    ELSE LET d == distances[i]
             r_int == r_contact
             r_edge == Mul(r_contact, Sqrt(F(2)))
             distOverL == Div(d.dist, l)
             adjacentStress ==
                 IF d.type = "interior"
                 THEN calculateSingleInteriorStress(P_tonnes_unfactored, h, l, calculateB(r_int, h))
                 ELSE IF IncludesEdge(d.type)
                 THEN calculateSingleEdgeStress(P_tonnes_unfactored, h, l, calculateB(r_edge, h), jointType)
                 ELSE 0
             rest == adjacentSum(distances, i + 1, P_tonnes_unfactored, h, l, jointType, r_contact)
             contribution ==
                 IF Gt(d.dist, 0) THEN getStressContribution(distOverL, adjacentStress, stressType(d))
                 ELSE 0
         IN Add(contribution, rest)

calculateTotalFactoredStress_BaseOnly(P_tonnes_unfactored, h, l, jointType, distances, loadCase, r_contact) ==
    LET r_int == r_contact
        r_edge == Mul(r_contact, Sqrt(F(2)))
        baseStress ==
            IF IncludesEdge(loadCase)
            THEN calculateSingleEdgeStress(P_tonnes_unfactored, h, l, calculateB(r_edge, h), jointType)
            ELSE IF loadCase = "corner"
            THEN calculateSingleCornerStress(P_tonnes_unfactored, h, l, r_int, jointType)
            ELSE calculateSingleInteriorStress(P_tonnes_unfactored, h, l, calculateB(r_int, h))
    IN Add(Mul(baseStress, LOAD_FACTOR),
           adjacentSum(distances, 1, P_tonnes_unfactored, h, l, jointType, r_contact))

calculateTotalFactoredStress(P_tonnes_unfactored, h, l, jointType, distances, loadCase, r_contact) ==
    LET r_int == r_contact
        r_edge == Mul(r_contact, Sqrt(F(2)))
        baseStress ==
            IF IncludesEdge(loadCase)
            THEN calculateSingleEdgeStress(P_tonnes_unfactored, h, l, calculateB(r_edge, h), jointType)
            ELSE IF loadCase = "corner"
            THEN calculateSingleCornerStress(P_tonnes_unfactored, h, l, r_int, jointType)
            ELSE calculateSingleInteriorStress(P_tonnes_unfactored, h, l, calculateB(r_int, h))
        totalUnfactoredStress ==
            Add(baseStress, adjacentSum(distances, 1, P_tonnes_unfactored, h, l, jointType, r_contact))
    IN Mul(totalUnfactoredStress, LOAD_FACTOR)

\* --- The universal thickness search ---

MinThickness == 100
MaxThickness == 800

\* The factored stress the search computes at trial thickness h (mm).
TrialStress(loadCase, Ec, k, P_tonnes_unfactored, jointType, distances, r_contact, h) ==
    calculateTotalFactoredStress(P_tonnes_unfactored, F(h), calculateL(Ec, F(h), k),
                                 jointType, distances, loadCase, r_contact)

\* The two result objects of the search: { thickness: h, stress: factoredStress }
\* and { thickness: '>800', stress: null }.
AdequateResult_Next(h, factoredStress) == [thickness |-> F(h + 1), stress |-> factoredStress]
AdequateResult(h, factoredStress) == [thickness |-> F(h), stress |-> factoredStress]
Exhausted == [thickness |-> GT800, stress |-> Null]

\* factoredStress <= allowableStress, and designStress <= allowableStress
WithinAllowable(stress, allowableStress) == Le(stress, allowableStress)

\* The result of a range of trials split in two: the lower half's return
\* statement if one of its trials reached it, otherwise the upper half's.
FirstReturn(lower, upper) == IF lower # Exhausted THEN lower ELSE upper

\* The while loop over h = lo, lo + 1, ..., hi: the trials are evaluated in
\* increasing h and stop at the first one whose factored stress is within the
\* allowable stress.  The range is halved rather than peeled one trial at a
\* time so that the evaluation depth stays logarithmic in its length.
RECURSIVE findMinThicknessFrom(_, _, _, _, _, _, _, _, _, _)
findMinThicknessFrom(lo, hi, loadCase, allowableStress, Ec, k, P_tonnes_unfactored, jointType, distances, r_contact) ==
    IF lo > hi THEN Exhausted
    ELSE IF lo = hi
    THEN LET factoredStress ==
                 TrialStress(loadCase, Ec, k, P_tonnes_unfactored, jointType, distances, r_contact, lo)
         IN IF WithinAllowable(factoredStress, allowableStress)
            THEN AdequateResult(lo, factoredStress)
            ELSE Exhausted
    ELSE FirstReturn(findMinThicknessFrom(lo, (lo + hi) \div 2, loadCase, allowableStress, Ec, k,
                                          P_tonnes_unfactored, jointType, distances, r_contact),
                     findMinThicknessFrom((lo + hi) \div 2 + 1, hi, loadCase, allowableStress, Ec, k,
                                          P_tonnes_unfactored, jointType, distances, r_contact))

findMinThickness(loadCase, allowableStress, Ec, k, P_tonnes_unfactored, jointType, distances, r_contact) ==
    findMinThicknessFrom(MinThickness, MaxThickness, loadCase, allowableStress, Ec, k,
                         P_tonnes_unfactored, jointType, distances, r_contact)


(***************************************************************************)
(* src/concretenz_tm38/src/components/ConcretePointLoadCalculator.tsx: the *)
(* standalone point-load calculator.                                       *)
(*                                                                         *)
(* Units.  A quantity this file converts to kPa by "* 1000" (the concrete  *)
(* modulus E, the allowable stress, every stress) is held as a whole       *)
(* number of kPa, which is the same integer as its value in MPa counted in *)
(* thousandths; the conversion therefore leaves the integer as it is.      *)
(* Lengths in metres and millimetres are in thousandths as everywhere.     *)
(***************************************************************************)

\* Math.min
MathMin(a, b) == IF a = NaN \/ b = NaN THEN NaN ELSE IF a <= b THEN a ELSE b

\* Math.max of three numbers
MathMax3(a, b, c) ==
    IF a = NaN \/ b = NaN \/ c = NaN THEN NaN
    ELSE IF a >= b /\ a >= c THEN a ELSE IF b >= c THEN b ELSE c

\* a * b / c where c is finite and positive: the product is divided before
\* it is rounded, so that a small quotient keeps its digits.
MulThenDiv(a, b, c) ==
    IF IsFinite(a) /\ IsFinite(b) /\ a # NaN /\ b # NaN THEN MulDiv(a, b, c)
    ELSE Div(Mul(a, b), c)

\* Math.log(x / y): the difference of the logarithms when both are finite
\* and positive, which keeps the digits of a very small quotient.
LnRatio(x, y) ==
    IF x # NaN /\ y # NaN /\ IsFinite(x) /\ IsFinite(y) /\ x > 0 /\ y > 0
    THEN (Ln4(x) - Ln4(y) + 5) \div 10
    ELSE Ln(Div(x, y))

cbrToModulus(cbr) ==
    IF Le(cbr, F(2)) THEN F(15)
    ELSE IF Le(cbr, F(5)) THEN F(37)
    ELSE IF Le(cbr, F(10)) THEN F(54)
    ELSE IF Le(cbr, F(20)) THEN F(68)
    ELSE IF Le(cbr, F(40)) THEN F(82)
    ELSE F(109)

\* scala is the text of the reading; scalaNum is its parseFloat, NaN when
\* the text does not start with a number.
scalaToCBR(scalaNum) ==
    IF Ge(scalaNum, F(100)) THEN F(2)
    ELSE IF Ge(scalaNum, F(50)) THEN F(3)
    ELSE IF Ge(scalaNum, F(20)) THEN F(5)
    ELSE IF Ge(scalaNum, F(10)) THEN F(8)
    ELSE IF Ge(scalaNum, F(5)) THEN F(12)
    ELSE IF Ge(scalaNum, F(2)) THEN F(20)
    ELSE IF Ge(scalaNum, F(1)) THEN F(30)
    ELSE F(50)

enhanceModulusForSubbase_Uncapped(hasSubbase, k, thickness) ==
    IF ~hasSubbase \/ Lt(thickness, F(100)) THEN k
    ELSE Mul(k, Add(F(1), Times(Div(thickness, F(300)), 5, 10)))

enhanceModulusForSubbase(hasSubbase, k, thickness) ==
    IF ~hasSubbase \/ Lt(thickness, F(100)) THEN k
    ELSE LET enhancement == Add(F(1), Times(Div(thickness, F(300)), 5, 10))
         IN MathMin(Mul(k, enhancement), Mul(k, F(2)))

\* The load repetition factor k2 of calculateModulusOfRupture.
k2_Swapped(repetitions) ==
    IF Ge(repetitions, F(400000)) THEN 770
    ELSE IF Ge(repetitions, F(300000)) THEN 810
    ELSE IF Ge(repetitions, F(200000)) THEN 780
    ELSE IF Ge(repetitions, F(100000)) THEN 840
    ELSE IF Ge(repetitions, F(50000)) THEN 890
    ELSE IF Ge(repetitions, F(30000)) THEN 900
    ELSE IF Ge(repetitions, F(10000)) THEN 960
    ELSE 1000

k2(repetitions) ==
    IF Ge(repetitions, F(400000)) THEN 770
    ELSE IF Ge(repetitions, F(300000)) THEN 780
    ELSE IF Ge(repetitions, F(200000)) THEN 810
    ELSE IF Ge(repetitions, F(100000)) THEN 840
    ELSE IF Ge(repetitions, F(50000)) THEN 890
    ELSE IF Ge(repetitions, F(30000)) THEN 900
    ELSE IF Ge(repetitions, F(10000)) THEN 960
    ELSE 1000

calculateModulusOfRupture(fc, age, repetitions) ==
    LET k1 == IF Ge(age, F(90)) THEN 1100 ELSE 1000
    IN Mul(Mul(Mul(456, k1), k2(repetitions)), Pow(fc, 66, 100))

\* 5000 * Math.sqrt(fc) * 1000, in whole kPa.
ConcreteModulus(fc) == Mul(F(5000), Sqrt(fc))

\* E is in whole kPa.  The quotient E * h^3 / denominator is wider than 32
\* bits, so it and its fourth root are taken through logarithms; the
\* factor 1000 of the denominator and the factor 1000 that turns E's MPa
\* into kPa are both kept.
calculateRadiusOfStiffness(E, h, k) ==
    LET mu == 150
        lnE == Ln4(E) + Ln4(F(1000))
        coefficient == Mul(Mul(F(12), Sub(F(1), Mul(mu, mu))), k)
        lnDenominator == Ln4(coefficient) + Ln4(F(1000))
    IN IF E = NaN \/ h = NaN \/ k = NaN \/ Lt(E, 0) THEN NaN
       ELSE IF k = 0 THEN (IF E = 0 THEN NaN ELSE PosInf)
       ELSE IF Lt(k, 0) THEN (IF E = 0 THEN 0 ELSE NaN)
       ELSE IF E = 0 \/ h = 0 THEN 0
       ELSE Exp4((lnE + 3 * Ln4(h) - lnDenominator) \div 4)

\* area is in square metres; the division by 1000000 is taken after the
\* square root, as a division of the radius by 1000, to keep its digits.
calculateEquivalentRadius(baseX, baseY, h, isBackToBack, backToBackSpacing) ==
    LET area == IF isBackToBack THEN Mul(Mul(baseX, baseY), F(2)) ELSE Mul(baseX, baseY)
    IN Div(Sqrt(Div(area, PI)), F(1000))

\* return hasLoadTransfer ? stress * factor : stress
LoadTransferFactor(stress, hasLoadTransfer, num, den) ==
    IF hasLoadTransfer THEN Times(stress, num, den) ELSE stress

\* let effectiveLoad = P; if (isBackToBack && backToBackSpacing < 2 * h)
\* effectiveLoad = P * 2.  The two numbers are compared as they are held:
\* the spacing as the field's number (metres), h as the trial thickness
\* (millimetres).
effectiveLoad(P, h, isBackToBack, backToBackSpacing) ==
    IF isBackToBack /\ Lt(backToBackSpacing, Mul(F(2), h)) THEN Mul(P, F(2)) ELSE P

\* The result is in whole kPa; (effectiveLoad * 1000 / h^2) * factor is
\* taken as effectiveLoad * 1000 * factor / h^2.
calculateStress(P, h, l, b, position, hasLoadTransfer, isBackToBack, backToBackSpacing) ==
    LET mu == 150
        load == Mul(effectiveLoad(P, h, isBackToBack, backToBackSpacing), F(1000))
        interiorFactor == Add(Mul(Mul(700, Add(F(1), mu)), LnRatio(l, b)), 1069)
        edgeFactor == Mul(Mul(5190, Add(F(1), Mul(540, mu))),
                          Add(Mul(F(4), LnRatio(l, b)), LnRatio(b, 25400)))
        cornerFactor == Div(Mul(41200, Sub(F(1), Sqrt(Div(b, l)))),
                            Add(925, Mul(220, Div(b, l))))
    IN IF position = "interior" THEN MulThenDiv(load, interiorFactor, Mul(h, h))
       ELSE IF position = "edge"
       THEN LoadTransferFactor(MulThenDiv(load, edgeFactor, Mul(h, h)), hasLoadTransfer, 85, 100)
       ELSE IF position = "corner"
       THEN LoadTransferFactor(MulThenDiv(load, cornerFactor, Mul(h, h)), hasLoadTransfer, 7, 10)
       ELSE 0

StartThickness == 125
ThicknessStep == 25
maxIterations == 20

\* One pass of the loop body at trial thickness `thickness` (mm): the values
\* the pass computes before it tests them.  The stress call passes the
\* equivalent radius in the place of l and the radius of stiffness in the
\* place of b, as the source does.
LoopValues(inputs, position, modulus, hasLoadTransfer, thickness) ==
    LET E == ConcreteModulus(inputs.concreteStrength)
        radiusOfStiffness == calculateRadiusOfStiffness(E, F(thickness), modulus)
        equivalentRadius == calculateEquivalentRadius(inputs.baseplateX, inputs.baseplateY,
                                F(thickness), inputs.isBackToBack, inputs.backToBackSpacing)
        stress == calculateStress(inputs.wheelLoading, F(thickness), equivalentRadius,
                                  radiusOfStiffness, position, hasLoadTransfer,
                                  inputs.isBackToBack, inputs.backToBackSpacing)
    IN [equivalentRadius |-> equivalentRadius,
        radiusOfStiffness |-> radiusOfStiffness,
        stress |-> Times(stress, 15, 10),
        thickness |-> F(thickness)]

\* The values computed after the loop has given up, at the thickness the
\* loop variable was left at.
ExhaustedValues(inputs, position, modulus, hasLoadTransfer, thickness) ==
    LET E == ConcreteModulus(inputs.concreteStrength)
        radiusOfStiffness == calculateRadiusOfStiffness(E, F(thickness), modulus)
        equivalentRadius == calculateEquivalentRadius(inputs.baseplateX, inputs.baseplateY,
                                F(thickness), inputs.isBackToBack, inputs.backToBackSpacing)
        stress == Times(calculateStress(inputs.wheelLoading, F(thickness), radiusOfStiffness,
                                  equivalentRadius, position, hasLoadTransfer,
                                  inputs.isBackToBack, inputs.backToBackSpacing), 15, 10)
    IN [equivalentRadius |-> equivalentRadius,
        radiusOfStiffness |-> radiusOfStiffness,
        stress |-> stress,
        thickness |-> F(thickness),
        isAdequate |-> FALSE]

\* while (iteration < maxIterations)
WithinIterations(n) == n < maxIterations

\* thickness += 25
NextStandaloneThickness(thickness) == thickness + ThicknessStep

\* The object the loop returns from a pass whose values are v.
AdequateValues(v) ==
    [equivalentRadius |-> v.equivalentRadius,
     radiusOfStiffness |-> v.radiusOfStiffness,
     stress |-> v.stress,
     thickness |-> v.thickness,
     isAdequate |-> TRUE]

\* The end of a pass whose values are v: return them if the stress is
\* within the allowable stress, otherwise go on with the later passes.
LoopPass(v, allowableStress, later) ==
    IF WithinAllowable(v.stress, allowableStress) THEN AdequateValues(v) ELSE later

RECURSIVE thicknessLoop(_, _, _, _, _, _, _)
thicknessLoop(inputs, position, modulus, hasLoadTransfer, allowableStress, thickness, iteration) ==
    IF WithinIterations(iteration)
    THEN LoopPass(LoopValues(inputs, position, modulus, hasLoadTransfer, thickness),
                  allowableStress,
                  thicknessLoop(inputs, position, modulus, hasLoadTransfer, allowableStress,
                                NextStandaloneThickness(thickness), iteration + 1))
    ELSE ExhaustedValues(inputs, position, modulus, hasLoadTransfer, thickness)

calculateThicknessForPosition(inputs, position, modulus, hasLoadTransfer, allowableStress) ==
    thicknessLoop(inputs, position, modulus, hasLoadTransfer, allowableStress, StartThickness, 0)

(***************************************************************************)
(* The calculators of src/BackToBackRackCalculator.tsx.  A field of an     *)
(* inputs object is held as the number parseFloat reads from its text.     *)
(***************************************************************************)

Neighbour(dist, type) == [dist |-> dist, type |-> type]

\* What handleCalculateThickness of the single-rack calculator computes
\* before it arms the timer, and the timer's callback closes over.
SingleRackSnapshot(shared, in) ==
    LET fc == shared.compressiveStrength
        x == in.x
        y == in.y
    IN [calculator |-> "singleRack",
        designStrength |-> calculateAllowableStress(fc, shared.loadApplicationTime,
                                                    in.loadCycles, shared.postTensionStress),
        Ec |-> calculateEc(fc),
        k |-> shared.finalModulus,
        P_tonnes_unfactored |-> Div(in.p, 9810),
        jointType |-> shared.jointType,
        r_contact |-> calculateRForPointLoad("rectangular", in.basePlate_a, in.basePlate_b),
        distances |->
            [interior |-> << Neighbour(x, "interior"), Neighbour(y, "interior"),
                             Neighbour(y, "interior") >>,
             edge |-> << Neighbour(y, "edge"), Neighbour(y, "edge") >>,
             corner |-> << Neighbour(x, "edge"), Neighbour(y, "edge"),
                           Neighbour(SqrtSumSquares(x, y), "interior") >>]]

\* The same for the back-to-back calculator.
BackToBackSnapshot(shared, in) ==
    LET fc == shared.compressiveStrength
        x == in.x
        y == in.y
        dist_z_center == Add(in.z, in.basePlate_a)
    IN [calculator |-> "backToBackRack",
        designStrength |-> calculateAllowableStress(fc, shared.loadApplicationTime,
                                                    in.loadCycles, shared.postTensionStress),
        Ec |-> calculateEc(fc),
        k |-> shared.finalModulus,
        P_tonnes_unfactored |-> Div(in.p, 9810),
        jointType |-> shared.jointType,
        r_contact |-> calculateRForPointLoad("rectangular", in.basePlate_a, in.basePlate_b),
        distances |->
            [interior |-> << Neighbour(x, "interior"), Neighbour(y, "interior"),
                             Neighbour(y, "interior"), Neighbour(dist_z_center, "interior") >>,
             edgeLong |-> << Neighbour(y, "edgeLong"), Neighbour(y, "edgeLong"),
                             Neighbour(x, "interior") >>,
             edgeShort |-> << Neighbour(x, "edgeShort"), Neighbour(dist_z_center, "edgeShort"),
                              Neighbour(y, "interior") >>,
             corner |-> << Neighbour(x, "edgeShort"), Neighbour(y, "edgeLong"),
                           Neighbour(SqrtSumSquares(x, y), "interior") >>]]

\* The same for the wheel calculator, which takes k from subgradeModulus.
WheelSnapshot(shared, in) ==
    LET fc == shared.compressiveStrength
        P_wheel_kN == Div(in.axleLoad, F(2))
        tyrePressure_MPa == Div(in.tyrePressure, F(1000))
        P_tyre_N == Div(Mul(P_wheel_kN, F(1000)), F(2))
        r_tyre == Sqrt(Div(Div(P_tyre_N, tyrePressure_MPa), PI))
        r_dual == Sqrt(Add(Mul(r_tyre, r_tyre), Div(Mul(Mul(F(2), in.tc), r_tyre), PI)))
        r_single == Sqrt(Div(Div(Mul(P_wheel_kN, F(1000)), tyrePressure_MPa), PI))
        wheel_spacing == in.s
    IN [calculator |-> "wheel",
        designStrength |-> calculateAllowableStress(fc, shared.loadApplicationTime,
                                                    in.loadCycles, shared.postTensionStress),
        Ec |-> calculateEc(fc),
        k |-> shared.subgradeModulus,
        P_tonnes_unfactored |-> Div(P_wheel_kN, 9810),
        jointType |-> shared.jointType,
        r_contact |-> IF in.wheelType = "dual" THEN r_dual ELSE r_single,
        distances |->
            [interior |-> << Neighbour(wheel_spacing, "interior") >>,
             edgePerp |-> << Neighbour(wheel_spacing, "interior") >>,
             edgePara |-> << Neighbour(wheel_spacing, "edge") >>,
             corner |-> << Neighbour(wheel_spacing, "edge") >>]]

\* The output keys of each calculator in the order its callback sets them,
\* and the load case the callback passes to the search for each key.
OutputKeys(calculator) ==
    IF calculator = "singleRack" THEN << "interior", "edge", "corner" >>
    ELSE IF calculator = "backToBackRack" THEN << "interior", "edgeLong", "edgeShort", "corner" >>
    ELSE << "interior", "edgePerp", "edgePara", "corner" >>

LoadCaseOf(calculator, key) ==
    IF calculator = "wheel" /\ key \in {"edgePerp", "edgePara"} THEN "edge" ELSE key

\* findMinThickness(loadCase, ...commonArgs, distances[key], r_contact)
SearchFor(snap, key) ==
    findMinThickness(LoadCaseOf(snap.calculator, key), snap.designStrength, snap.Ec, snap.k,
                     snap.P_tonnes_unfactored, snap.jointType, snap.distances[key],
                     snap.r_contact)

\* setOutputs(prev => ({ ...prev, [key]: value })) on the entries of an
\* object in insertion order: an existing key keeps its place.
SetKey(prev, key, value) ==
    IF \E i \in 1..Len(prev) : prev[i].key = key
    THEN [i \in 1..Len(prev) |-> IF prev[i].key = key THEN value ELSE prev[i]]
    ELSE Append(prev, value)

\* { ...findMinThickness(...), ultimateStrength: designStrength }
OutputValue(key, r, designStrength) ==
    [key |-> key, thickness |-> r.thickness, stress |-> r.stress,
     ultimateStrength |-> designStrength]

\* A callback that gives up at the first exhausted search.
RECURSIVE RunSearches_StopAtExhausted(_, _, _)
RunSearches_StopAtExhausted(snap, prev, i) ==
    IF i > Len(OutputKeys(snap.calculator)) THEN prev
    ELSE LET key == OutputKeys(snap.calculator)[i]
             r == SearchFor(snap, key)
         IN IF r = Exhausted THEN prev
            ELSE RunSearches_StopAtExhausted(snap,
                     SetKey(prev, key, OutputValue(key, r, snap.designStrength)), i + 1)

\* The body of the timer's callback: one search and one setOutputs per key.
RECURSIVE RunSearches(_, _, _)
RunSearches(snap, prev, i) ==
    IF i > Len(OutputKeys(snap.calculator)) THEN prev
    ELSE LET key == OutputKeys(snap.calculator)[i]
         IN RunSearches(snap,
                        SetKey(prev, key, OutputValue(key, SearchFor(snap, key), snap.designStrength)),
                        i + 1)

\* The test without its comparison: any numeric thickness replaces the
\* maximum.
ExceedsMax_AnyNumber(thickness, maxThickness) == ~IsNaN(thickness)

\* !isNaN(thickness) && thickness > maxThickness
ExceedsMax(thickness, maxThickness) == ~IsNaN(thickness) /\ Gt(thickness, maxThickness)

\* The forEach of the criticalLoadCase memo over results[i..].
RECURSIVE criticalFrom(_, _, _, _)
criticalFrom(entries, i, maxThickness, criticalCaseName) ==
    IF i > Len(entries) THEN criticalCaseName
    ELSE LET thickness == ParseFloat(entries[i].thickness)
         IN IF ExceedsMax(thickness, maxThickness)
            THEN criticalFrom(entries, i + 1, thickness, entries[i].key)
            ELSE criticalFrom(entries, i + 1, maxThickness, criticalCaseName)

\* criticalLoadCase: "null" stands for null.
criticalLoadCase(out) ==
    LET results == SelectSeq(out, LAMBDA val : Truthy(val.thickness))
    IN IF Len(results) = 0 THEN "null" ELSE criticalFrom(results, 1, 0, "null")

(***************************************************************************)
(* The standalone calculator's effect and its Design Summary.              *)
(***************************************************************************)

\* The CBR the effect uses.  scalaValue is the reading's text, held as the
\* number parseFloat reads from it: Null for the empty text, NaN for a text
\* that is not a number.
EffectCBR(in) ==
    IF in.groundAssessmentType = "scala" /\ in.scalaValue # Null
    THEN scalaToCBR(in.scalaValue)
    ELSE in.cbrValue

EffectModulus(in) ==
    LET modulus == cbrToModulus(EffectCBR(in))
    IN IF in.hasSubbase
       THEN enhanceModulusForSubbase(in.hasSubbase, modulus, in.subbaseThickness)
       ELSE modulus

EffectAllowableStress_AlwaysAdds(in) ==
    Add(calculateModulusOfRupture(in.concreteStrength, in.assessmentAge, in.loadRepetitions),
        in.residualStrength)

\* Both "* 1000" conversions to kPa leave the integers as they are.
EffectAllowableStress(in) ==
    LET allowableStress ==
            calculateModulusOfRupture(in.concreteStrength, in.assessmentAge, in.loadRepetitions)
    IN IF in.isPrestressed THEN Add(allowableStress, in.residualStrength)
       ELSE allowableStress

EffectHasLoadTransfer(in) == in.jointType = "dowel" \/ in.jointType = "tied"

\* The results object the effect stores for the inputs `in`.
ResultsFor(in, modulus, allowableStress, hasLoadTransfer) ==
    [modulus |-> modulus,
     allowableStress |-> allowableStress,
     interior |-> calculateThicknessForPosition(in, "interior", modulus, hasLoadTransfer,
                                                allowableStress),
     edge |-> calculateThicknessForPosition(in, "edge", modulus, hasLoadTransfer,
                                            allowableStress),
     corner |-> calculateThicknessForPosition(in, "corner", modulus, hasLoadTransfer,
                                              allowableStress)]

EffectResults(in) ==
    ResultsFor(in, EffectModulus(in), EffectAllowableStress(in), EffectHasLoadTransfer(in))

\* Design Summary: "Recommended Minimum Thickness" and "Governed by".
RecommendedThickness(res) ==
    MathMax3(res.interior.thickness, res.edge.thickness, res.corner.thickness)

GovernedBy(res) ==
    IF Ge(res.corner.thickness, res.edge.thickness)
       /\ Ge(res.corner.thickness, res.interior.thickness) THEN "corner"
    ELSE IF Ge(res.edge.thickness, res.interior.thickness) THEN "edge"
    ELSE "interior"

(***************************************************************************)
(* State.                                                                  *)
(*                                                                         *)
(* A search in progress: which function runs (variant), its arguments      *)
(* (sargs), its loop variables (h is `h` of findMinThickness and           *)
(* `thickness` of calculateThicknessForPosition, in mm; iteration), where  *)
(* it is (pc) and what it returned (result).  trace is the history of the  *)
(* trials the loop has evaluated, each with the stress it tested; memo is  *)
(* the history of an earlier call: its arguments and what it returned.     *)
(*                                                                         *)
(* The calculator suite (app = "suite"): page and sharedInputs of App, and *)
(* inputs, outputs, isLoading of the mounted calculator; timer is the      *)
(* pending setTimeout callback with the values it closed over.  The        *)
(* standalone calculator (app = "standalone"): standaloneInputs is its     *)
(* inputs object and results the object its effect stores.                 *)
(***************************************************************************)
VARIABLES variant, sargs, h, iteration, pc, result, trace, memo,
          app, page, sharedInputs, inputs, outputs, isLoading, timer,
          standaloneInputs, results,
          call, ret

searchVars == << variant, sargs, h, iteration, pc, result, trace, memo >>
suiteVars == << page, sharedInputs, inputs, outputs, isLoading, timer >>
standaloneVars == << standaloneInputs, results >>
formulaVars == << call, ret >>
vars == << variant, sargs, h, iteration, pc, result, trace, memo,
           app, page, sharedInputs, inputs, outputs, isLoading, timer,
           standaloneInputs, results, call, ret >>

None == [none |-> TRUE]

\* useState initial values
SharedDefaults ==
    [stiffnessMethod |-> "CBR", cbrValue |-> F(10), scalaValue |-> F(10),
     subgradeModulus |-> F(54), useSubbase |-> TRUE, subbaseThickness |-> F(150),
     finalModulus |-> F(65), compressiveStrength |-> F(35), loadApplicationTime |-> F(90),
     jointType |-> "Dowel Joints", postTensionStress |-> 0]

InputDefaults(calculator) ==
    IF calculator = "singleRack"
    THEN [x |-> F(800), y |-> F(2700), p |-> F(60), basePlate_a |-> F(125),
          basePlate_b |-> F(125), loadCycles |-> "< 8000"]
    ELSE IF calculator = "backToBackRack"
    THEN [x |-> F(800), y |-> F(2700), z |-> F(500), p |-> F(60), basePlate_a |-> F(125),
          basePlate_b |-> F(125), loadCycles |-> "< 8000"]
    ELSE [s |-> F(2000), s_a |-> F(700), tyrePressure |-> F(700), axleLoad |-> F(400),
          loadCycles |-> "< 8000", wheelType |-> "single", tc |-> F(300)]

StandaloneDefaults ==
    [cbrValue |-> 0, scalaValue |-> Null, groundAssessmentType |-> "cbr",
     hasSubbase |-> TRUE, subbaseThickness |-> F(100),
     concreteStrength |-> F(32), isPrestressed |-> FALSE, residualStrength |-> 500,
     assessmentAge |-> F(28), jointType |-> "dowel", loadPosition |-> "interior",
     rackSpacingX |-> F(1), rackSpacingY |-> 800, isBackToBack |-> FALSE,
     backToBackSpacing |-> 100, baseplateX |-> F(50), baseplateY |-> F(50),
     wheelLoading |-> F(1), loadRepetitions |-> F(8000)]

\* The variables of the parts a specification does not run.
SearchIdle ==
    /\ variant = "none" /\ sargs = None /\ h = 0 /\ iteration = 0
    /\ pc = "idle" /\ result = None /\ trace = << >> /\ memo = None

SuiteIdle ==
    /\ page = "inputs" /\ sharedInputs = SharedDefaults /\ inputs = None
    /\ outputs = << >> /\ isLoading = FALSE /\ timer = None

StandaloneIdle ==
    /\ standaloneInputs = StandaloneDefaults /\ results = None

NoCall == [fn |-> "none"]

FormulaIdle ==
    /\ call = NoCall /\ ret = None

(***************************************************************************)
(* The two thickness searches, one loop pass per step.                     *)
(***************************************************************************)

\* Inputs of the searches that are run: concrete strengths (MPa), foot
\* loads (kN) and post-tension entries for findMinThickness; concrete
\* strengths and loads (kN) for calculateThicknessForPosition.
SearchStrengths == {F(35), F(1), 0}
SearchLoads == {F(30), F(120)}
SearchPostTensions == {0, NaN}
SearchCases == {"interior", "edge", "corner"}
StandaloneStrengths == {F(32), 0, F(-1)}
StandaloneLoads == {F(1), 0, F(-10), F(-300)}

\* The arguments the single-rack calculator passes to findMinThickness for
\* one load case.
SearchArgs(snap, loadCase) ==
    [loadCase |-> loadCase, allowableStress |-> snap.designStrength, Ec |-> snap.Ec,
     k |-> snap.k, P_tonnes_unfactored |-> snap.P_tonnes_unfactored,
     jointType |-> snap.jointType, distances |-> snap.distances[loadCase],
     r_contact |-> snap.r_contact]

RackArgs(fc, p, postTensionStress, loadCase) ==
    SearchArgs(SingleRackSnapshot([SharedDefaults EXCEPT !.compressiveStrength = fc,
                                                         !.postTensionStress = postTensionStress],
                                  [InputDefaults("singleRack") EXCEPT !.p = p]),
               loadCase)

\* The arguments the effect passes to calculateThicknessForPosition for one
\* position, with the inputs object the function reads.
StandaloneArgs(in, position) ==
    [inputs |-> in, position |-> position, modulus |-> EffectModulus(in),
     hasLoadTransfer |-> EffectHasLoadTransfer(in),
     allowableStress |-> EffectAllowableStress(in)]

SearchInit ==
    /\ app = "search" /\ SuiteIdle /\ StandaloneIdle /\ FormulaIdle
    /\ pc = "loop" /\ result = None /\ trace = << >> /\ iteration = 0 /\ memo = None
    /\ \/ /\ variant = "rack"
          /\ h = MinThickness
          /\ \E fc \in SearchStrengths, p \in SearchLoads, pt \in SearchPostTensions,
                loadCase \in SearchCases :
                /\ pt = 0 \/ p = F(30)
                /\ sargs = RackArgs(fc, p, pt, loadCase)
       \/ /\ variant = "standalone"
          /\ h = StartThickness
          /\ \E fc \in StandaloneStrengths, P \in StandaloneLoads, pre \in BOOLEAN,
                position \in SearchCases :
                sargs = StandaloneArgs([StandaloneDefaults EXCEPT !.concreteStrength = fc,
                                                                  !.wheelLoading = P,
                                                                  !.isPrestressed = pre],
                                       position)

\* while (h <= 800)
WithinCeiling(thickness) == thickness <= MaxThickness

\* h++ left out, and h += 2
NextThickness_Stuck(thickness) == thickness
NextThickness_Skip(thickness) == thickness + 2

\* h++
NextThickness(thickness) == thickness + 1

\* One pass of the loop of findMinThickness.
RackTrial ==
    /\ variant = "rack" /\ pc = "loop" /\ WithinCeiling(h)
    /\ \E factoredStress \in {TrialStress(sargs.loadCase, sargs.Ec, sargs.k,
                                           sargs.P_tonnes_unfactored, sargs.jointType,
                                           sargs.distances, sargs.r_contact, h)} :
          /\ trace' = Append(trace, [thickness |-> F(h), stress |-> factoredStress])
          /\ IF WithinAllowable(factoredStress, sargs.allowableStress)
             THEN /\ result' = AdequateResult(h, factoredStress)
                  /\ pc' = "done"
                  /\ h' = h
             ELSE /\ h' = NextThickness(h)
                  /\ UNCHANGED << result, pc >>
    /\ UNCHANGED << variant, sargs, iteration, memo, app, suiteVars, standaloneVars, formulaVars >>

\* The loop of findMinThickness is left without a result.
RackExhausted ==
    /\ variant = "rack" /\ pc = "loop" /\ ~WithinCeiling(h)
    /\ result' = Exhausted
    /\ pc' = "done"
    /\ UNCHANGED << variant, sargs, h, iteration, trace, memo, app, suiteVars, standaloneVars, formulaVars >>

\* One pass of the loop of calculateThicknessForPosition.
StandaloneTrial ==
    /\ variant = "standalone" /\ pc = "loop" /\ WithinIterations(iteration)
    /\ \E v \in {LoopValues(sargs.inputs, sargs.position, sargs.modulus,
                             sargs.hasLoadTransfer, h)} :
          /\ trace' = Append(trace, [thickness |-> v.thickness, stress |-> v.stress])
          /\ IF WithinAllowable(v.stress, sargs.allowableStress)
             THEN /\ result' = AdequateValues(v)
                  /\ pc' = "done"
                  /\ UNCHANGED << h, iteration >>
             ELSE /\ h' = NextStandaloneThickness(h)
                  /\ iteration' = iteration + 1
                  /\ UNCHANGED << result, pc >>
    /\ UNCHANGED << variant, sargs, memo, app, suiteVars, standaloneVars, formulaVars >>

\* The loop of calculateThicknessForPosition is left without a result.
StandaloneExhausted ==
    /\ variant = "standalone" /\ pc = "loop" /\ ~WithinIterations(iteration)
    /\ result' = ExhaustedValues(sargs.inputs, sargs.position, sargs.modulus,
                                 sargs.hasLoadTransfer, h)
    /\ pc' = "done"
    /\ UNCHANGED << variant, sargs, h, iteration, trace, memo, app, suiteVars, standaloneVars, formulaVars >>

SearchNext == RackTrial \/ RackExhausted \/ StandaloneTrial \/ StandaloneExhausted

SearchSpec == SearchInit /\ [][SearchNext]_vars

(***************************************************************************)
(* Searches called one after another (RerunSpec): memo keeps the arguments *)
(* and the result of the first search that returned, and counts the calls  *)
(* made after it.                                                          *)
(***************************************************************************)

\* The searches that are called again: of each variant one that returns at
\* its first trial and one that returns after many.
MaxLater == 2
RepeatedRackArgs ==
    {RackArgs(F(35), F(30), 0, "interior"), RackArgs(F(35), F(120), 0, "corner")}
RepeatedStandaloneArgs ==
    {StandaloneArgs(StandaloneDefaults, "interior"),
     StandaloneArgs([StandaloneDefaults EXCEPT !.wheelLoading = F(-300)], "corner")}

\* The loop variable of a call that kept the value the last call left.
FirstTrial_Kept(v) == h

\* let h = 100 of findMinThickness and let thickness = 125 of
\* calculateThicknessForPosition
FirstTrial(v) == IF v = "rack" THEN MinThickness ELSE StartThickness

\* The next call of a search: its locals are declared anew.
Rerun ==
    /\ app = "search" /\ pc = "done"
    /\ IF memo = None
       THEN memo' = [variant |-> variant, sargs |-> sargs, result |-> result, later |-> 1]
       ELSE /\ memo.later < MaxLater
            /\ memo' = [memo EXCEPT !.later = @ + 1]
    /\ \/ variant' = "rack" /\ sargs' \in RepeatedRackArgs
       \/ variant' = "standalone" /\ sargs' \in RepeatedStandaloneArgs
    /\ h' = FirstTrial(variant')
    /\ iteration' = 0
    /\ trace' = << >>
    /\ result' = None
    /\ pc' = "loop"
    /\ UNCHANGED << app, suiteVars, standaloneVars, formulaVars >>

RerunNext == SearchNext \/ Rerun

RerunSpec == SearchInit /\ [][RerunNext]_vars

\* What the search's function returns for the arguments of the search that
\* is running.
Returned ==
    IF variant = "rack"
    THEN findMinThickness(sargs.loadCase, sargs.allowableStress, sargs.Ec, sargs.k,
                          sargs.P_tonnes_unfactored, sargs.jointType, sargs.distances,
                          sargs.r_contact)
    ELSE calculateThicknessForPosition(sargs.inputs, sargs.position, sargs.modulus,
                                       sargs.hasLoadTransfer, sargs.allowableStress)

\* The stepwise loop and the function the calculators call return the same.
StepwiseAgrees == pc = "done" => result = Returned

(***************************************************************************)
(* Properties of the searches (SearchSpec).                                *)
(***************************************************************************)

\* The search has returned, with or without an adequate thickness.
ResultAdequate ==
    pc = "done" /\ (IF variant = "rack" THEN result # Exhausted ELSE result.isAdequate)
ResultExhausted ==
    pc = "done" /\ (IF variant = "rack" THEN result = Exhausted ELSE ~result.isAdequate)

\* The first trial thickness and the distance between trials, in mm.
Floor == IF variant = "rack" THEN MinThickness ELSE StartThickness
Step == IF variant = "rack" THEN 1 ELSE ThicknessStep

\* How many more passes the loop's guard allows.
TrialsLeft == IF variant = "rack" THEN MaxThickness + 1 - h ELSE maxIterations - iteration

\* The trials made so far are those at Floor, Floor + Step, ... in order.
TrialsInOrder == \A i \in 1..Len(trace) : trace[i].thickness = F(Floor + (i - 1) * Step)

\* The stress the search's loop computes at a thickness (in thousandths of
\* a mm) for the arguments of the search that is running.
StressAt(thickness) ==
    IF variant = "rack"
    THEN TrialStress(sargs.loadCase, sargs.Ec, sargs.k, sargs.P_tonnes_unfactored,
                     sargs.jointType, sargs.distances, sargs.r_contact, thickness \div S)
    ELSE LoopValues(sargs.inputs, sargs.position, sargs.modulus, sargs.hasLoadTransfer,
                    thickness \div S).stress

\* C1: every search terminates for any input, NaN and non-positive values
\* included: findMinThickness makes at most 701 trials and
\* calculateThicknessForPosition at most 20, every pass that does not return
\* uses up one of them, and what the search returns is an adequate or an
\* exhausted result.
C1_SearchTerminates ==
    /\ Len(trace) <= (IF variant = "rack" THEN 701 ELSE 20)
    /\ TrialsLeft >= 0
    /\ pc = "loop" => Len(trace) + TrialsLeft = (IF variant = "rack" THEN 701 ELSE 20)
    /\ pc = "done" => ResultAdequate \/ ResultExhausted

\* A search whose allowable stress is NaN has returned after 701 trials.
C1_Witness ==
    /\ pc = "done" /\ variant = "rack" /\ IsNaN(sargs.allowableStress)
    /\ Len(trace) = 701 /\ result = Exhausted

\* C2: the stress of an adequate result is the factored design stress at
\* the returned thickness, and it is at most the allowable stress passed in.
C2_AdequateStressWithinAllowable ==
    ResultAdequate =>
        /\ result.stress = StressAt(result.thickness)
        /\ Le(result.stress, sargs.allowableStress)

\* A rack search has returned an adequate thickness above the floor.
C2_Witness ==
    /\ ResultAdequate /\ variant = "rack"
    /\ result.thickness > F(MinThickness) /\ result.stress > 0

\* C3: the adequate thickness returned is the first trial that meets the
\* criterion: the trials made are exactly those from the floor to the
\* returned thickness at the variant's step, and every one before the last
\* had a stress strictly above the allowable stress.
C3_FirstAdequateTrial ==
    ResultAdequate =>
        /\ Len(trace) >= 1
        /\ TrialsInOrder
        /\ trace[Len(trace)].thickness = result.thickness
        /\ \A i \in 1..(Len(trace) - 1) : Gt(trace[i].stress, sargs.allowableStress)

\* A standalone search has returned an adequate thickness after trials that
\* failed.
C3_Witness == ResultAdequate /\ variant = "standalone" /\ Len(trace) >= 3

\* C4: an exhausted result consists of the last thickness that was tested,
\* the stress computed at it, and an adequacy flag that is false.
C4_ExhaustedIsLastTrial ==
    ResultExhausted =>
        /\ "isAdequate" \in DOMAIN result
        /\ result.isAdequate = FALSE
        /\ result.thickness = trace[Len(trace)].thickness
        /\ result.stress = trace[Len(trace)].stress

\* C5: a search is exhausted only after its trials have reached 800 mm:
\* every thickness from the floor to 800 mm at the step was tested and
\* exceeded the allowable stress.
C5_ExhaustedOnlyAtCeiling ==
    ResultExhausted =>
        /\ TrialsInOrder
        /\ trace[Len(trace)].thickness = F(MaxThickness)
        /\ \A i \in 1..Len(trace) : Gt(trace[i].stress, sargs.allowableStress)

\* The design stress of the standalone search at a thickness (mm) with
\* the radius of relative stiffness passed as l and the equivalent contact
\* radius passed as b, as the signature of calculateStress names them.
StressByRole(thickness) ==
    Times(calculateStress(sargs.inputs.wheelLoading, F(thickness),
                          calculateRadiusOfStiffness(ConcreteModulus(sargs.inputs.concreteStrength),
                                                     F(thickness), sargs.modulus),
                          calculateEquivalentRadius(sargs.inputs.baseplateX,
                                                    sargs.inputs.baseplateY, F(thickness),
                                                    sargs.inputs.isBackToBack,
                                                    sargs.inputs.backToBackSpacing),
                          sargs.position, sargs.hasLoadTransfer, sargs.inputs.isBackToBack,
                          sargs.inputs.backToBackSpacing),
          15, 10)

\* C30: every call of calculateStress in calculateThicknessForPosition
\* passes the radius of relative stiffness as l and the equivalent contact
\* radius as b: the stress of every trial of the loop and the stress of
\* an exhausted result are that one function of the thickness.
C30_SameArgumentRoles ==
    variant = "standalone" =>
        /\ \A i \in 1..Len(trace) : trace[i].stress = StressByRole(trace[i].thickness \div S)
        /\ ResultExhausted => result.stress = StressByRole(result.thickness \div S)

\* A search has returned that was called with the arguments memo keeps.
SameArgumentsAgain ==
    pc = "done" /\ memo # None /\ memo.variant = variant /\ memo.sargs = sargs

Calculators == {"singleRack", "backToBackRack", "wheel"}
CalcStrengths == {F(35), F(1), 0}
CalcLoads == {F(10), F(120)}
CalcAxleLoads == {F(20), F(400)}
EnteredStrengths == {F(32), 0}
EnteredLoads == {F(1), 0, F(-10), F(-300)}
EnteredCBRs == {0, F(-5), F(3), F(10)}
EnteredScalas == {Null, 0, F(-3), F(10), F(150)}
EnteredSubbases == {0, F(50), F(100), F(300), F(900)}

\* Readings entered on the shared-inputs screen: the number parseFloat makes
\* of the field's text, NaN for an empty field.
GroundCBRs == {NaN, 0, 500, F(10), F(50)}
GroundScalas == {NaN, 0, F(10)}
GroundSubbases == {NaN, 0, F(50), F(150), F(300)}

\* useState initial value of results
InitialResults ==
    LET zero == [equivalentRadius |-> 0, radiusOfStiffness |-> 0, stress |-> 0,
                 thickness |-> 0, isAdequate |-> FALSE]
    IN [modulus |-> 0, allowableStress |-> 0, interior |-> zero, edge |-> zero,
        corner |-> zero]

CalcInit ==
    /\ SearchIdle /\ FormulaIdle
    /\ \/ app = "suite" /\ SuiteIdle /\ StandaloneIdle
       \/ /\ app = "standalone" /\ SuiteIdle
          /\ standaloneInputs = StandaloneDefaults
          /\ results = InitialResults

\* The effect of InputParameters after a render that changed what it
\* depends on; it runs before the user can act again.
SharedEffectPending == page = "inputs" /\ sharedInputs # InputParametersEffect(sharedInputs)

RunSharedEffect ==
    /\ app = "suite" /\ SharedEffectPending
    /\ sharedInputs' = InputParametersEffect(sharedInputs)
    /\ UNCHANGED << app, page, inputs, outputs, isLoading, timer, searchVars, formulaVars, standaloneVars >>

\* InputParameters.handleInputChange on the concrete strength field.
EditCompressiveStrength ==
    /\ app = "suite" /\ page = "inputs" /\ ~SharedEffectPending
    /\ \E fc \in CalcStrengths :
          sharedInputs' = [sharedInputs EXCEPT !.compressiveStrength = fc]
    /\ UNCHANGED << app, page, inputs, outputs, isLoading, timer, searchVars, formulaVars, standaloneVars >>

\* A NavButton: the calculator is mounted with its initial state.
Navigate ==
    /\ app = "suite" /\ page = "inputs" /\ ~SharedEffectPending
    /\ \E c \in Calculators :
          /\ page' = c
          /\ inputs' = InputDefaults(c)
    /\ outputs' = << >>
    /\ isLoading' = FALSE
    /\ timer' = None
    /\ UNCHANGED << app, sharedInputs, searchVars, formulaVars, standaloneVars >>

\* The ReturnButton: the calculator is unmounted; a callback still pending
\* sets the state of a component that is gone, which changes nothing.
Return ==
    /\ app = "suite" /\ page \in Calculators
    /\ page' = "inputs"
    /\ inputs' = None
    /\ outputs' = << >>
    /\ isLoading' = FALSE
    /\ timer' = None
    /\ UNCHANGED << app, sharedInputs, searchVars, formulaVars, standaloneVars >>

\* handleInputChange of a calculator, on its load field.
EditLoad ==
    /\ app = "suite" /\ page \in Calculators
    /\ IF page = "wheel"
       THEN \E axleLoad \in CalcAxleLoads : inputs' = [inputs EXCEPT !.axleLoad = axleLoad]
       ELSE \E p \in CalcLoads : inputs' = [inputs EXCEPT !.p = p]
    /\ UNCHANGED << app, page, sharedInputs, outputs, isLoading, timer, searchVars, formulaVars,
                    standaloneVars >>

Snapshot(calculator, shared, in) ==
    IF calculator = "singleRack" THEN SingleRackSnapshot(shared, in)
    ELSE IF calculator = "backToBackRack" THEN BackToBackSnapshot(shared, in)
    ELSE WheelSnapshot(shared, in)

\* handleCalculateThickness, up to and including setTimeout; the button is
\* disabled while isLoading.
Calculate ==
    /\ app = "suite" /\ page \in Calculators /\ ~isLoading
    /\ isLoading' = TRUE
    /\ outputs' = << >>
    /\ timer' = Snapshot(page, sharedInputs, inputs)
    /\ UNCHANGED << app, page, sharedInputs, inputs, searchVars, formulaVars, standaloneVars >>

\* A callback that reads the inputs held when it runs instead of the
\* values its closure took at the click.
Timeout_ReadsCurrentInputs ==
    /\ app = "suite" /\ timer # None
    /\ outputs' = RunSearches(Snapshot(page, sharedInputs, inputs), outputs, 1)
    /\ isLoading' = FALSE
    /\ timer' = None
    /\ UNCHANGED << app, page, sharedInputs, inputs, searchVars, formulaVars, standaloneVars >>

\* A callback that ends without setIsLoading(false).
Timeout_LeavesLoading ==
    /\ app = "suite" /\ timer # None
    /\ outputs' = RunSearches(timer, outputs, 1)
    /\ timer' = None
    /\ UNCHANGED << app, page, sharedInputs, inputs, isLoading, searchVars, formulaVars,
                    standaloneVars >>

\* The callback of setTimeout.
Timeout ==
    /\ app = "suite" /\ timer # None
    /\ outputs' = RunSearches(timer, outputs, 1)
    /\ isLoading' = FALSE
    /\ timer' = None
    /\ UNCHANGED << app, page, sharedInputs, inputs, searchVars, formulaVars, standaloneVars >>

\* The effect of the standalone calculator after its first render.
StandaloneMount ==
    /\ app = "standalone" /\ results = InitialResults
    /\ results' = EffectResults(standaloneInputs)
    /\ UNCHANGED << app, standaloneInputs, searchVars, formulaVars, suiteVars >>

\* handleInputChange of the standalone calculator on a concrete or loading
\* field, and the effect that the changed inputs trigger.
StandaloneEdit ==
    /\ app = "standalone" /\ results # InitialResults
    /\ \/ \E fc \in EnteredStrengths :
             standaloneInputs' = [standaloneInputs EXCEPT !.concreteStrength = fc]
       \/ \E P \in EnteredLoads :
             standaloneInputs' = [standaloneInputs EXCEPT !.wheelLoading = P]
       \/ standaloneInputs' = [standaloneInputs EXCEPT !.isPrestressed = ~@]
    /\ results' = EffectResults(standaloneInputs')
    /\ UNCHANGED << app, searchVars, formulaVars, suiteVars >>

CalcNext ==
    \/ RunSharedEffect \/ EditCompressiveStrength \/ Navigate \/ Return
    \/ EditLoad \/ Calculate \/ Timeout
    \/ StandaloneMount \/ StandaloneEdit

CalcSpec == CalcInit /\ [][CalcNext]_vars

\* The steps of Timeout, told by what they do to the timer: the armed
\* timer goes off while the calculator stays mounted.
TimerFires == app = "suite" /\ timer # None /\ timer' = None /\ page' = page

\* A timer that was armed fires: the callback of setTimeout runs once its
\* 100 ms have passed, unless the calculator was left before.
FairCalcSpec == CalcSpec /\ WF_timer(TimerFires)

(***************************************************************************)
(* The ground inputs as the user edits them (GroundSpec): the soil fields  *)
(* of the shared-inputs screen and the ground and sub-base fields of the   *)
(* standalone calculator.                                                  *)
(***************************************************************************)

\* InputParameters.handleInputChange on the stiffness method and on the
\* reading field the method shows.
EditGroundReading ==
    /\ app = "suite" /\ page = "inputs" /\ ~SharedEffectPending
    /\ \/ \E method \in {"CBR", "Scala"} :
             sharedInputs' = [sharedInputs EXCEPT !.stiffnessMethod = method]
       \/ /\ sharedInputs.stiffnessMethod = "CBR"
          /\ \E cbr \in GroundCBRs : sharedInputs' = [sharedInputs EXCEPT !.cbrValue = cbr]
       \/ /\ sharedInputs.stiffnessMethod = "Scala"
          /\ \E scala \in GroundScalas :
                sharedInputs' = [sharedInputs EXCEPT !.scalaValue = scala]
    /\ UNCHANGED << app, page, inputs, outputs, isLoading, timer, searchVars, formulaVars, standaloneVars >>

\* InputParameters.handleInputChange on the sub-base checkbox and on the
\* thickness field the checkbox shows.
EditSubbase ==
    /\ app = "suite" /\ page = "inputs" /\ ~SharedEffectPending
    /\ \/ sharedInputs' = [sharedInputs EXCEPT !.useSubbase = ~@]
       \/ /\ sharedInputs.useSubbase
          /\ \E thickness \in GroundSubbases :
                sharedInputs' = [sharedInputs EXCEPT !.subbaseThickness = thickness]
    /\ UNCHANGED << app, page, inputs, outputs, isLoading, timer, searchVars, formulaVars, standaloneVars >>

\* handleInputChange of the standalone calculator on a ground or sub-base
\* field, and the effect that the changed inputs trigger.
StandaloneEditGround ==
    /\ app = "standalone" /\ results # InitialResults
    /\ \/ /\ standaloneInputs.groundAssessmentType = "cbr"
          /\ \E cbr \in EnteredCBRs :
                standaloneInputs' = [standaloneInputs EXCEPT !.cbrValue = cbr]
       \/ /\ standaloneInputs.groundAssessmentType = "scala"
          /\ \E scala \in EnteredScalas :
                standaloneInputs' = [standaloneInputs EXCEPT !.scalaValue = scala]
       \/ \E type \in {"cbr", "scala"} :
             standaloneInputs' = [standaloneInputs EXCEPT !.groundAssessmentType = type]
       \/ standaloneInputs' = [standaloneInputs EXCEPT !.hasSubbase = ~@]
       \/ /\ standaloneInputs.hasSubbase
          /\ \E thickness \in EnteredSubbases :
                standaloneInputs' = [standaloneInputs EXCEPT !.subbaseThickness = thickness]
    /\ results' = EffectResults(standaloneInputs')
    /\ UNCHANGED << app, searchVars, formulaVars, suiteVars >>

GroundNext ==
    \/ RunSharedEffect \/ EditGroundReading \/ EditSubbase
    \/ StandaloneMount \/ StandaloneEditGround

GroundSpec == CalcInit /\ [][GroundNext]_vars

(***************************************************************************)
(* Properties of the governing case (CalcSpec).                            *)
(***************************************************************************)

Positions == {"interior", "edge", "corner"}

\* The entry of the outputs object under a key.
OutputOf(key) == outputs[CHOOSE i \in 1..Len(outputs) : outputs[i].key = key]

\* The timer's callback has stored the result of every load case.
SuiteCalculated == app = "suite" /\ page \in Calculators /\ outputs # << >>

\* The standalone calculator's effect has stored its results.
StandaloneCalculated == app = "standalone" /\ results # InitialResults

\* A load case of the suite has a governing case marked.
SuiteGoverned == SuiteCalculated /\ criticalLoadCase(outputs) # "null"

\* corner > edge > interior; every edge case of a calculator ranks as edge.
Priority(key) == IF key = "corner" THEN 3 ELSE IF key = "interior" THEN 1 ELSE 2

\* C6: the governing case a calculator reports is a case whose thickness is
\* the numerical maximum of the thicknesses computed for its load cases:
\* in the suite the case that criticalLoadCase marks, among the cases whose
\* thickness is a number; in the standalone calculator the position named
\* by "Governed by", whose thickness is the recommended minimum thickness.
C6_GoverningIsMaximum ==
    /\ SuiteGoverned =>
          /\ \E i \in 1..Len(outputs) : outputs[i].key = criticalLoadCase(outputs)
          /\ OutputOf(criticalLoadCase(outputs)).thickness # GT800
          /\ \A j \in 1..Len(outputs) :
                outputs[j].thickness # GT800
                    => outputs[j].thickness <= OutputOf(criticalLoadCase(outputs)).thickness
    /\ StandaloneCalculated =>
          /\ results[GovernedBy(results)].thickness = RecommendedThickness(results)
          /\ \A position \in Positions :
                results[position].thickness <= RecommendedThickness(results)

\* The back-to-back calculator has marked the corner case, which is thicker
\* than the interior case.
C6_Witness ==
    /\ SuiteGoverned /\ page = "backToBackRack" /\ Len(outputs) = 4
    /\ criticalLoadCase(outputs) = "corner"
    /\ OutputOf("interior").thickness < OutputOf("corner").thickness
    /\ OutputOf("corner").thickness # GT800

\* C7: when several load cases share the maximum thickness, the governing
\* case is the one of highest priority, corner > edge > interior, in the
\* single-rack, back-to-back, wheel and standalone calculators alike.
C7_TiesByPriority ==
    /\ SuiteGoverned =>
          \A j \in 1..Len(outputs) :
             outputs[j].thickness = OutputOf(criticalLoadCase(outputs)).thickness
                 => Priority(outputs[j].key) <= Priority(criticalLoadCase(outputs))
    /\ StandaloneCalculated =>
          \A position \in Positions :
             results[position].thickness = RecommendedThickness(results)
                 => Priority(position) <= Priority(GovernedBy(results))

\* C8: whenever the search of at least one load case was exhausted, the
\* case a calculator marks as governing is not one whose search ended
\* adequate.
C8_ExhaustionSurfaced ==
    /\ (SuiteGoverned /\ \E i \in 1..Len(outputs) : outputs[i].thickness = GT800) =>
          OutputOf(criticalLoadCase(outputs)).thickness = GT800
    /\ (StandaloneCalculated /\ \E position \in Positions : ~results[position].isAdequate) =>
          ~results[GovernedBy(results)].isAdequate

\* C9: when the concrete strength is zero or negative the allowable stress
\* is 0 and the search of every load case is exhausted.  (The shared inputs
\* cannot change while a calculator is mounted, so the strength on screen
\* is the one the outputs were computed with.)
C9_NoStrengthNoAdequateCase ==
    /\ (SuiteCalculated /\ Le(sharedInputs.compressiveStrength, 0)) =>
          \A i \in 1..Len(outputs) :
             outputs[i].ultimateStrength = 0 /\ outputs[i].thickness = GT800
    /\ (StandaloneCalculated /\ Le(standaloneInputs.concreteStrength, 0)) =>
          /\ results.allowableStress = 0
          /\ \A position \in Positions : ~results[position].isAdequate

\* What a run of the mounted calculator gives for the inputs it holds now.
CurrentOutputs == RunSearches(Snapshot(page, sharedInputs, inputs), << >>, 1)

\* C22: the results on display are the solver's output for the inputs the
\* calculator holds now: after any edits and Calculate clicks no displayed
\* result comes from other input values.
C22_DisplayedResultsAreCurrent ==
    /\ SuiteCalculated => outputs = CurrentOutputs
    /\ StandaloneCalculated => results = EffectResults(standaloneInputs)

\* A finished run of the mounted calculator is on display.
RunFinished == SuiteCalculated /\ timer = None

\* C23: a run produces a result for every load case of its calculator,
\* whether or not the search of another case was exhausted or degenerate:
\* the outputs hold one entry per case, in the order of the cases, and the
\* standalone results hold a searched thickness for each position.
C23_EveryCaseProduced ==
    /\ RunFinished =>
          /\ Len(outputs) = Len(OutputKeys(page))
          /\ \A i \in 1..Len(outputs) :
                /\ outputs[i].key = OutputKeys(page)[i]
                /\ outputs[i].thickness = GT800 \/ Ge(outputs[i].thickness, F(MinThickness))
    /\ StandaloneCalculated =>
          \A position \in Positions : Ge(results[position].thickness, F(StartThickness))

\* A run in which the search of one case was exhausted and the search of
\* a later case was not.
C23_Witness ==
    /\ RunFinished
    /\ \E i, j \in 1..Len(outputs) :
          /\ i < j
          /\ outputs[i].thickness = GT800
          /\ outputs[j].thickness # GT800

\* C27: a run works on a snapshot.  What the click hands to the delayed
\* callback is computed from the inputs and shared inputs held at the
\* click; no edit made while the callback is pending changes it; and the
\* callback computes the result of every case from it and from nothing
\* else.
C27_RunWorksOnSnapshot ==
    [][/\ (~isLoading /\ isLoading') => timer' = Snapshot(page, sharedInputs, inputs)
       /\ (timer # None /\ isLoading') => timer' = timer
       /\ (isLoading /\ ~isLoading' /\ page' = page)
             => outputs' = RunSearches(timer, << >>, 1)]_vars

\* The load was edited after the click and the callback is still pending.
C27_Witness ==
    /\ app = "suite" /\ isLoading /\ timer # None
    /\ timer # Snapshot(page, sharedInputs, inputs)

\* The mounted calculator shows an entry for each of its load cases and
\* is not loading.
RunComplete ==
    /\ page \in Calculators /\ ~isLoading
    /\ Len(outputs) = Len(OutputKeys(page))
    /\ \A i \in 1..Len(outputs) : outputs[i].key = OutputKeys(page)[i]

\* C29: a run that was started completes.  The click clears the outputs
\* and sets isLoading; from then on, unless the calculator is left,
\* isLoading becomes false with an entry for every load case of the
\* calculator: it is never left true for ever.
C29_RunCompletes ==
    /\ [][(~isLoading /\ isLoading') => outputs' = << >>]_vars
    /\ isLoading ~> (RunComplete \/ page = "inputs")

\* The wheel calculator has finished a run.
C29_Witness == page = "wheel" /\ RunComplete

(***************************************************************************)
(* Properties of the ground inputs (GroundSpec).                           *)
(***************************************************************************)

\* The reading the shared-inputs screen shows is not a positive number.
SuiteReadingInvalid ==
    IF sharedInputs.stiffnessMethod = "CBR"
    THEN ~Gt(sharedInputs.cbrValue, 0)
    ELSE ~Gt(sharedInputs.scalaValue, 0)

\* The reading the standalone calculator shows is not a positive number.
StandaloneReadingInvalid ==
    IF standaloneInputs.groundAssessmentType = "cbr"
    THEN ~Gt(standaloneInputs.cbrValue, 0)
    ELSE standaloneInputs.scalaValue = Null \/ ~Gt(standaloneInputs.scalaValue, 0)

\* C10: for an invalid ground reading (a CBR that is not positive, a
\* penetrometer reading that is not positive or not a number) the modulus
\* of subgrade reaction is 0, and for a CBR above 0 it is above 0, in the
\* step lookup of the standalone calculator and in the regression of the
\* shared-inputs screen.
C10_InvalidReadingGivesZero ==
    /\ StandaloneCalculated =>
          /\ StandaloneReadingInvalid => results.modulus = 0
          /\ (standaloneInputs.groundAssessmentType = "cbr"
                /\ Gt(standaloneInputs.cbrValue, 0)) => results.modulus > 0
    /\ (app = "suite" /\ ~SharedEffectPending) =>
          /\ SuiteReadingInvalid => sharedInputs.subgradeModulus = 0
          /\ (sharedInputs.stiffnessMethod = "CBR" /\ Gt(sharedInputs.cbrValue, 0))
                => sharedInputs.subgradeModulus > 0

\* The modulus the shared-inputs screen holds is zero or not a number.
ZeroOrInvalid(modulus) == modulus = 0 \/ IsNaN(modulus)

\* C11: on the shared-inputs screen, once the effect has run, an invalid
\* ground reading leaves subgradeModulus and finalModulus zero or invalid,
\* never the values of an earlier valid reading.
C11_InvalidReadingClearsModulus ==
    (app = "suite" /\ page = "inputs" /\ ~SharedEffectPending /\ SuiteReadingInvalid) =>
        /\ ZeroOrInvalid(sharedInputs.subgradeModulus)
        /\ ZeroOrInvalid(sharedInputs.finalModulus)

\* The base modulus of the standalone calculator, before the sub-base.
StandaloneBaseModulus == cbrToModulus(EffectCBR(standaloneInputs))

\* C12: the capped multiplier keeps the enhanced modulus between k and
\* 2 k for a base modulus k > 0, and leaves k alone when there is no
\* sub-base or the sub-base is thinner than 100 mm.
C12_CappedEnhancement ==
    (StandaloneCalculated /\ StandaloneBaseModulus > 0) =>
        /\ results.modulus >= StandaloneBaseModulus
        /\ results.modulus <= 2 * StandaloneBaseModulus
        /\ (~standaloneInputs.hasSubbase \/ standaloneInputs.subbaseThickness < F(100))
              => results.modulus = StandaloneBaseModulus

\* The cap is reached: a 900 mm sub-base would multiply by 2.5.
C12_Witness ==
    /\ StandaloneCalculated /\ StandaloneBaseModulus > 0
    /\ standaloneInputs.hasSubbase /\ standaloneInputs.subbaseThickness = F(900)
    /\ results.modulus = 2 * StandaloneBaseModulus

\* The shared-inputs screen shows a valid reading and its effect has run.
SuiteReadingApplied ==
    app = "suite" /\ page = "inputs" /\ ~SharedEffectPending /\ ~SuiteReadingInvalid

\* C13: the log regression of the shared-inputs screen does not enhance
\* for a sub-base thinner than 100 mm (finalModulus = subgradeModulus) and
\* never gives a finalModulus below subgradeModulus.
C13_RegressionNeverLowers ==
    SuiteReadingApplied =>
        /\ Ge(sharedInputs.finalModulus, sharedInputs.subgradeModulus)
        /\ (sharedInputs.useSubbase /\ Lt(sharedInputs.subbaseThickness, F(100)))
              => sharedInputs.finalModulus = sharedInputs.subgradeModulus

(***************************************************************************)
(* The formulas on their own (FormulaSpec): each step applies one function *)
(* of the calculators to inputs drawn from the values its fields offer.    *)
(***************************************************************************)

\* The options of the two load-cycles selects, in the order they are shown.
RepetitionSequence ==
    << "< 8000", "10000", "30000", "50000", "100000", "200000", "300000", "400000" >>
StandaloneRepetitions ==
    << F(8000), F(10000), F(30000), F(50000), F(100000), F(200000), F(300000), F(400000) >>

FormulaInit ==
    /\ app = "formula" /\ SearchIdle /\ SuiteIdle /\ StandaloneIdle /\ FormulaIdle

\* A behaviour applies one function, again and again.
Applying(fn) == app = "formula" /\ call.fn \in {"none", fn}

\* getK2 on an option of the rack and wheel calculators' select.
Apply_getK2 ==
    /\ Applying("getK2")
    /\ \E bucket \in 1..Len(RepetitionSequence) :
          /\ call' = [fn |-> "getK2", bucket |-> bucket,
                      repetitionsStr |-> RepetitionSequence[bucket]]
          /\ ret' = getK2(RepetitionSequence[bucket])
    /\ UNCHANGED << app, searchVars, suiteVars, standaloneVars >>

\* getK2 on repetition counts between, below and above the options.
RepetitionCounts ==
    << "5000", "8000", "10000", "100000", "400000", "400001", "1000000" >>

Apply_getK2OfCount ==
    /\ Applying("getK2OfCount")
    /\ \E n \in 1..Len(RepetitionCounts) :
          /\ call' = [fn |-> "getK2OfCount", repetitionsStr |-> RepetitionCounts[n],
                      repetitions |-> ParseRepetitions(RepetitionCounts[n])]
          /\ ret' = getK2(RepetitionCounts[n])
    /\ UNCHANGED << app, searchVars, suiteVars, standaloneVars >>

\* The k2 of calculateModulusOfRupture on an option of the standalone select.
Apply_k2 ==
    /\ Applying("k2")
    /\ \E bucket \in 1..Len(StandaloneRepetitions) :
          /\ call' = [fn |-> "k2", bucket |-> bucket,
                      repetitions |-> StandaloneRepetitions[bucket]]
          /\ ret' = k2(StandaloneRepetitions[bucket])
    /\ UNCHANGED << app, searchVars, suiteVars, standaloneVars >>

\* The three influence tables and the distance / l ratios they are read at:
\* the quarters from 0 to 7, and Infinity (a neighbour on a slab with l = 0).
InfluenceTables == {interiorRadialPoints, interiorTangentialPoints, edgeRadialPoints}
Ratios == {250 * n : n \in 0..28} \cup {PosInf}

Apply_interpolate ==
    /\ Applying("interpolate")
    /\ \E points \in InfluenceTables, x \in Ratios :
          /\ call' = [fn |-> "interpolate", points |-> points, x |-> x]
          /\ ret' = interpolate(points, x)
    /\ UNCHANGED << app, searchVars, suiteVars, standaloneVars >>

\* The curve ids calculateTotalFactoredStress passes ('' for a neighbour
\* that is neither interior nor edge), the id of the radial interior curve,
\* and an id that names no curve; baseline stresses in MPa.
CurveIds == {"interior-radial", "interior-tangential", "edge-radial", "", "corner-radial"}
BaseStresses == {0, F(1), 2500}

Apply_getStressContribution ==
    /\ Applying("getStressContribution")
    /\ \E distOverL \in Ratios, baseStress \in BaseStresses, type \in CurveIds :
          /\ call' = [fn |-> "getStressContribution", distOverL |-> distOverL,
                      baseStress |-> baseStress, type |-> type]
          /\ ret' = getStressContribution(distOverL, baseStress, type)
    /\ UNCHANGED << app, searchVars, suiteVars, standaloneVars >>

\* Arguments of calculateTotalFactoredStress: the default foot of a rack
\* (60 kN on a 125 mm plate) on a slab of 35 MPa concrete over k = 65, the
\* joint types, and neighbour lists as the calculators build them: none,
\* the corner list of a single rack, a pair of equal neighbours, and a
\* list whose first entry has the distance 0.
StressThicknesses == {150, 300}
StressJointTypes == {"Dowel Joints", "Tied Joints", "No Load Transfer"}
StressLoadCases == {"interior", "edge", "edgeLong", "corner"}
NeighbourLists ==
    { << >>,
      << Neighbour(F(800), "edge"), Neighbour(F(2700), "edge"), Neighbour(2816025, "interior") >>,
      << Neighbour(F(2700), "edge"), Neighbour(F(2700), "edge") >>,
      << Neighbour(0, "interior"), Neighbour(F(800), "edge"), Neighbour(F(500), "interior") >> }

Apply_calculateTotalFactoredStress ==
    /\ Applying("calculateTotalFactoredStress")
    /\ \E thickness \in StressThicknesses, jointType \in StressJointTypes,
          distances \in NeighbourLists, loadCase \in StressLoadCases :
          \E l \in {calculateL(calculateEc(F(35)), F(thickness), F(65))} :
             /\ call' = [fn |-> "calculateTotalFactoredStress", P_tonnes_unfactored |-> 6116,
                         h |-> F(thickness), l |-> l, jointType |-> jointType,
                         distances |-> distances, loadCase |-> loadCase, r_contact |-> 70519]
             /\ ret' = calculateTotalFactoredStress(6116, F(thickness), l, jointType,
                                                    distances, loadCase, 70519)
    /\ UNCHANGED << app, searchVars, suiteVars, standaloneVars >>

\* One pass of the standalone search at a trial thickness.
StandaloneThicknesses == {125, 300}
StandalonePositions == {"interior", "edge", "corner"}
StandaloneJointTypes == {"dowel", "tied", "non_dowel"}

Apply_LoopValues ==
    /\ Applying("LoopValues")
    /\ \E thickness \in StandaloneThicknesses, position \in StandalonePositions,
          jointType \in StandaloneJointTypes, P \in {F(1), F(60)} :
          \E in \in {[StandaloneDefaults EXCEPT !.jointType = jointType, !.wheelLoading = P]} :
             /\ call' = [fn |-> "LoopValues", inputs |-> in, position |-> position,
                         modulus |-> EffectModulus(in),
                         hasLoadTransfer |-> EffectHasLoadTransfer(in),
                         thickness |-> thickness]
             /\ ret' = LoopValues(in, position, EffectModulus(in), EffectHasLoadTransfer(in),
                                  thickness)
    /\ UNCHANGED << app, searchVars, suiteVars, standaloneVars >>

\* Degenerate arguments next to regular ones: a slab of no thickness, and
\* the modulus the regression gives for a CBR of 0.5 %, which is negative.
DegenerateThicknesses == StressThicknesses \cup {0}
DegenerateModuli == {F(65), 0, calculateKFromCBR(500)}

\* The stress of a single load at one position of the rack suite:
\* calculateSingleInteriorStress, calculateSingleEdgeStress and
\* calculateSingleCornerStress, with b as the point calculator derives it.
calculateSingleStress(position, P_tonnes, thickness, l, r, jointType) ==
    IF position = "interior"
    THEN calculateSingleInteriorStress(P_tonnes, thickness, l, calculateB(r, thickness))
    ELSE IF position = "edge"
    THEN calculateSingleEdgeStress(P_tonnes, thickness, l, calculateB(Mul(r, Sqrt(F(2))), thickness), jointType)
    ELSE calculateSingleCornerStress(P_tonnes, thickness, l, r, jointType)

Apply_calculateSingleStress ==
    /\ Applying("calculateSingleStress")
    /\ \E thickness \in DegenerateThicknesses, jointType \in StressJointTypes,
          position \in StandalonePositions, fc \in {F(35), 0},
          k \in DegenerateModuli, r \in {70519, 0} :
          \E l \in {calculateL(calculateEc(fc), F(thickness), k)} :
             /\ call' = [fn |-> "calculateSingleStress", position |-> position,
                         P_tonnes |-> 6116, Ec |-> calculateEc(fc), k |-> k,
                         h |-> F(thickness), l |-> l, r |-> r, jointType |-> jointType]
             /\ ret' = calculateSingleStress(position, 6116, F(thickness), l, r, jointType)
    /\ UNCHANGED << app, searchVars, suiteVars, standaloneVars >>

\* calculateStress of the standalone calculator with the load-transfer
\* flag its effect derives from the joint type.
Apply_calculateStress ==
    /\ Applying("calculateStress")
    /\ \E thickness \in StandaloneThicknesses, position \in StandalonePositions,
          jointType \in StandaloneJointTypes, P \in {F(1), F(60)},
          fc \in {F(32), 0}, baseplateX \in {F(50), 0} :
          \E in \in {[StandaloneDefaults EXCEPT !.jointType = jointType, !.wheelLoading = P,
                                                !.concreteStrength = fc,
                                                !.baseplateX = baseplateX]} :
             \E v \in {LoopValues(in, position, EffectModulus(in), FALSE, thickness)} :
                /\ call' = [fn |-> "calculateStress", P |-> P, h |-> F(thickness),
                            l |-> v.equivalentRadius, b |-> v.radiusOfStiffness,
                            position |-> position, jointType |-> jointType,
                            hasLoadTransfer |-> EffectHasLoadTransfer(in),
                            E |-> ConcreteModulus(fc), k |-> EffectModulus(in)]
                /\ ret' = calculateStress(P, F(thickness), v.equivalentRadius,
                                          v.radiusOfStiffness, position,
                                          EffectHasLoadTransfer(in), in.isBackToBack,
                                          in.backToBackSpacing)
    /\ UNCHANGED << app, searchVars, suiteVars, standaloneVars >>

\* The load calculateStress applies for the back-to-back checkbox and a
\* spacing its field offers (0.1 m to 2.0 m), at a trial thickness.
Apply_effectiveLoad ==
    /\ Applying("effectiveLoad")
    /\ \E thickness \in StandaloneThicknesses, P \in {F(1), F(60)},
          isBackToBack \in BOOLEAN, backToBackSpacing \in {100, 200, 500, F(2)} :
          /\ call' = [fn |-> "effectiveLoad", P |-> P, h |-> F(thickness),
                      isBackToBack |-> isBackToBack,
                      backToBackSpacing |-> backToBackSpacing]
          /\ ret' = effectiveLoad(P, F(thickness), isBackToBack, backToBackSpacing)
    /\ UNCHANGED << app, searchVars, suiteVars, standaloneVars >>

\* The allowable stress of the standalone effect for the post-tension
\* checkbox and the residual strengths (MPa) its field can hold, and
\* calculateAllowableStress of the rack suite for the entries of its
\* residual post-tension field.
ResidualStrengths == {0, 500, F(2)}

Apply_EffectAllowableStress ==
    /\ Applying("EffectAllowableStress")
    /\ \E isPrestressed \in BOOLEAN, residualStrength \in ResidualStrengths,
          fc \in {F(25), F(32)}, repetitions \in {F(8000), F(100000)} :
          \E in \in {[StandaloneDefaults EXCEPT !.isPrestressed = isPrestressed,
                                                !.residualStrength = residualStrength,
                                                !.concreteStrength = fc,
                                                !.loadRepetitions = repetitions]} :
             /\ call' = [fn |-> "EffectAllowableStress", inputs |-> in]
             /\ ret' = EffectAllowableStress(in)
    /\ UNCHANGED << app, searchVars, suiteVars, standaloneVars >>

Apply_calculateAllowableStress ==
    /\ Applying("calculateAllowableStress")
    /\ \E fc \in {F(25), F(35)}, days \in {F(28), F(90)},
          repetitions \in {"< 8000", "100000"}, postTensionStress \in ResidualStrengths :
          /\ call' = [fn |-> "calculateAllowableStress", fc |-> fc, days |-> days,
                      repetitions |-> repetitions, postTensionStress |-> postTensionStress]
          /\ ret' = calculateAllowableStress(fc, days, repetitions, postTensionStress)
    /\ UNCHANGED << app, searchVars, suiteVars, standaloneVars >>

FormulaNext ==
    \/ Apply_getK2 \/ Apply_getK2OfCount \/ Apply_k2 \/ Apply_interpolate \/ Apply_getStressContribution
    \/ Apply_calculateTotalFactoredStress \/ Apply_LoopValues
    \/ Apply_calculateSingleStress \/ Apply_calculateStress
    \/ Apply_EffectAllowableStress \/ Apply_calculateAllowableStress
    \/ Apply_effectiveLoad

FormulaSpec == FormulaInit /\ [][FormulaNext]_vars

(***************************************************************************)
(* Properties of the formulas (FormulaSpec).                               *)
(***************************************************************************)

\* A fatigue factor was computed by one of the two implementations.
FatigueCall(c) == c.fn \in {"getK2", "k2"}

\* C14: along the buckets of the load-cycles select the fatigue factor k2
\* never rises, and it is 1.0 for the first bucket ('< 8000'), in the step
\* table of calculateModulusOfRupture and in the clamped logarithm of getK2.
C14_FatigueFactorNonIncreasing ==
    [][/\ (FatigueCall(call') /\ call'.bucket = 1) => ret' = 1000
       /\ (FatigueCall(call) /\ call'.fn = call.fn /\ call'.bucket >= call.bucket)
             => ret' <= ret]_vars

\* The last bucket, 400000 and more, gets a factor below 1.
C14_Witness ==
    /\ call.fn = "getK2" /\ call.repetitionsStr = "400000" /\ ret < 1000 /\ ret >= 750

\* x lies between the breakpoints i and i + 1 of the table.
InSegment(points, x, i) == IsFinite(x) /\ x >= points[i][1] /\ x <= points[i + 1][1]

\* y is on the straight line through the breakpoints i and i + 1 at x.
OnLine(points, x, y, i) ==
    (y - points[i][2]) * (points[i + 1][1] - points[i][1])
       = (points[i + 1][2] - points[i][2]) * (x - points[i][1])

\* C15: interpolate returns the first value of the table (100 %) at and
\* below the first breakpoint, the last value (0 %) at and above the last
\* breakpoint 6, and between two adjacent breakpoints the value on the
\* straight line through them, which at a breakpoint is the table value.
C15_InterpolateClampsAndInterpolates ==
    call.fn = "interpolate" =>
        /\ Le(call.x, call.points[1][1])
              => (ret = call.points[1][2] /\ ret = F(100))
        /\ Ge(call.x, call.points[Len(call.points)][1])
              => (ret = call.points[Len(call.points)][2] /\ ret = 0)
        /\ \A i \in 1..(Len(call.points) - 1) :
              InSegment(call.points, call.x, i) => OnLine(call.points, call.x, ret, i)
        /\ \A i \in 1..Len(call.points) :
              call.x = call.points[i][1] => ret = call.points[i][2]

\* Halfway between the breakpoints 0.5 (60 %) and 1 (25 %).
C15_Witness ==
    /\ call.fn = "interpolate" /\ call.points = interiorRadialPoints
    /\ call.x = 750 /\ ret = 42500

KnownCurveIds == {"interior-radial", "interior-tangential", "edge-radial"}

\* C16: the contribution of a neighbour is between -0.1 and 1.0 times its
\* baseline stress for every curve and every ratio, and 0 for a curve id
\* that names no curve.
C16_InfluenceFractionInRange ==
    call.fn = "getStressContribution" =>
        /\ call.type \in KnownCurveIds =>
              (10 * ret >= -call.baseStress /\ ret <= call.baseStress)
        /\ call.type \notin KnownCurveIds => ret = 0

\* The lowest point of the curves: -10 % on the radial edge curve at 3 l.
C16_Witness ==
    /\ call.fn = "getStressContribution" /\ call.type = "edge-radial"
    /\ call.distOverL = F(3) /\ call.baseStress = F(1) /\ ret = -100

\* The baseline stress of a single load of the call c at the position
\* `type`: an edge load spreads over r * sqrt(2).
Baseline(c, type) ==
    IF IncludesEdge(type)
    THEN calculateSingleEdgeStress(c.P_tonnes_unfactored, c.h, c.l,
                                   calculateB(Mul(c.r_contact, Sqrt(F(2))), c.h), c.jointType)
    ELSE IF type = "corner"
    THEN calculateSingleCornerStress(c.P_tonnes_unfactored, c.h, c.l, c.r_contact, c.jointType)
    ELSE calculateSingleInteriorStress(c.P_tonnes_unfactored, c.h, c.l,
                                       calculateB(c.r_contact, c.h))

\* What the i-th neighbour of the call c adds: its own baseline stress
\* times the influence fraction at its distance, nothing when the list is
\* shorter or the distance is not positive.
NeighbourShare(c, i) ==
    IF i <= Len(c.distances) /\ Gt(c.distances[i].dist, 0)
    THEN getStressContribution(Div(c.distances[i].dist, c.l),
                               Baseline(c, c.distances[i].type),
                               IF IncludesEdge(c.distances[i].type) THEN "edge-radial"
                               ELSE "interior-tangential")
    ELSE 0

\* C17: the total factored stress is 1.5 times the sum of the baseline
\* stress of the primary load and, for each neighbour at a positive
\* distance, that neighbour's baseline stress times its influence
\* fraction: every neighbour once, the load factor once, after the sum.
\* The standalone search has no neighbours and factors its stress once.
C17_TotalIsFactoredSum ==
    /\ call.fn = "calculateTotalFactoredStress" =>
          /\ Len(call.distances) <= 3
          /\ ret = Mul(Add(Add(Add(Baseline(call, call.loadCase), NeighbourShare(call, 1)),
                               NeighbourShare(call, 2)), NeighbourShare(call, 3)),
                       LOAD_FACTOR)
    /\ call.fn = "LoopValues" =>
          ret.stress = Times(calculateStress(call.inputs.wheelLoading, F(call.thickness),
                                             ret.equivalentRadius, ret.radiusOfStiffness,
                                             call.position, call.hasLoadTransfer,
                                             call.inputs.isBackToBack,
                                             call.inputs.backToBackSpacing), 15, 10)

\* A corner load with three neighbours, all of which add to the total.
C17_Witness ==
    /\ call.fn = "calculateTotalFactoredStress" /\ call.loadCase = "corner"
    /\ Len(call.distances) = 3
    /\ \A i \in 1..3 : NeighbourShare(call, i) # 0
    /\ ret > Mul(Baseline(call, "corner"), LOAD_FACTOR)

\* The stress of the call c as it would be without load transfer.
UnreducedRack(c) ==
    calculateSingleStress(c.position, c.P_tonnes, c.h, c.l, c.r, "No Load Transfer")
UnreducedStandalone(c) ==
    calculateStress(c.P, c.h, c.l, c.b, c.position, FALSE,
                    StandaloneDefaults.isBackToBack, StandaloneDefaults.backToBackSpacing)

\* The reduction a position gets from a joint with load transfer.
Reduced(stress, position) ==
    IF position = "edge" THEN Times(stress, 85, 100)
    ELSE IF position = "corner" THEN Times(stress, 7, 10)
    ELSE stress

\* C18: the edge stress is multiplied by 0.85 and the corner stress by 0.7
\* exactly for the dowel and tied joint types; without load transfer both
\* are left as they are, and the interior stress is never reduced.
C18_LoadTransferReduction ==
    /\ call.fn = "calculateSingleStress" =>
          ret = IF call.jointType \in {"Dowel Joints", "Tied Joints"}
                THEN Reduced(UnreducedRack(call), call.position)
                ELSE UnreducedRack(call)
    /\ call.fn = "calculateStress" =>
          ret = IF call.jointType \in {"dowel", "tied"}
                THEN Reduced(UnreducedStandalone(call), call.position)
                ELSE UnreducedStandalone(call)

\* A tied joint reduces a corner stress that is not zero.
C18_Witness ==
    /\ call.fn = "calculateSingleStress" /\ call.position = "corner"
    /\ call.jointType = "Tied Joints"
    /\ ret > 0 /\ ret < UnreducedRack(call)

\* The modulus of rupture fr of the two implementations for the call c.
StandaloneRupture(c) ==
    calculateModulusOfRupture(c.inputs.concreteStrength, c.inputs.assessmentAge,
                              c.inputs.loadRepetitions)
RackRupture(c) ==
    Mul(Mul(Mul(456, getK1(c.days)), getK2(c.repetitions)), Pow(c.fc, 66, 100))

RackGuarded(c, stress) ==
    /\ (Le(c.Ec, 0) \/ Le(c.h, 0) \/ Le(c.k, 0)) => c.l = 0
    /\ (Le(c.h, 0) \/ Le(c.l, 0) \/ Le(c.r, 0)) => stress = 0
    /\ ~Lt(stress, 0)

\* The same guards on a call of the standalone calculateStress, whose
\* radius of relative stiffness is the argument the loop passes as b.
StandaloneGuarded(c, stress) ==
    /\ (Le(c.E, 0) \/ Le(c.h, 0) \/ Le(c.k, 0)) => c.b = 0
    /\ (Le(c.h, 0) \/ Le(c.l, 0) \/ Le(c.b, 0)) => stress = 0
    /\ ~Lt(stress, 0)

\* C21: the interior, edge and corner stress of a single load is 0 when
\* the thickness, the radius of relative stiffness or the contact radius
\* is not positive, it is never negative, and the radius of relative
\* stiffness is 0 when Ec, h or k is not positive, in the rack suite and
\* in the standalone calculator.
C21_DegenerateGeometryGivesZero ==
    /\ call.fn = "calculateSingleStress" => RackGuarded(call, ret)
    /\ call.fn = "calculateStress" => StandaloneGuarded(call, ret)

\* C25: k2 does not increase with the repetition count, for counts
\* between the options and above 400000 as well, and every k2 lies
\* between 0.75 and 1.0: of two successive calls of getK2 the one with
\* the larger count does not return the larger factor.
C25_FatigueFactorMonotonicEverywhere ==
    [][call'.fn = "getK2OfCount" =>
          /\ ret' >= 750 /\ ret' <= 1000
          /\ (call.fn = "getK2OfCount" /\ call.repetitions <= call'.repetitions)
                => ret' <= ret]_vars

\* The neighbour records the calculators build, and the curve that
\* calculateTotalFactoredStress, called for the primary case loadCase,
\* passes to getStressContribution for the neighbour d.
NeighbourRecords ==
    {Neighbour(dist, type) : dist \in {F(800), F(2700)},
                             type \in {"interior", "edge", "edgeLong", "edgeShort"}}
SelectedCurve(loadCase, d) == stressType(d)

\* C26: the influence curve of a neighbour depends on the position type
\* of the primary case and on the direction of measurement: some
\* neighbour record gets one curve under a primary interior case and
\* another under a primary edge case, and the search can select the
\* radial as well as the tangential interior curve.
C26_CurveDependsOnPrimaryCase ==
    call.fn = "calculateTotalFactoredStress" =>
        /\ \E d \in NeighbourRecords :
              SelectedCurve("interior", d) # SelectedCurve("edge", d)
        /\ \E loadCase \in StressLoadCases, d \in NeighbourRecords :
              SelectedCurve(loadCase, d) = "interior-tangential"
        /\ \E loadCase \in StressLoadCases, d \in NeighbourRecords :
              SelectedCurve(loadCase, d) = "interior-radial"

\* The spacing field's metres as millimetres.
SpacingInMillimetres(c) == Mul(c.backToBackSpacing, F(1000))

\* C28: the load of a back-to-back configuration is doubled only when the
\* spacing between the racks is less than twice the trial thickness, both
\* taken as lengths in one unit; at a spacing of twice the thickness or
\* more the load is not doubled.
C28_DoubledOnlyWhenClose ==
    call.fn = "effectiveLoad" =>
        ret = IF call.isBackToBack /\ Lt(SpacingInMillimetres(call), Mul(F(2), call.h))
              THEN Mul(call.P, F(2))
              ELSE call.P

(***************************************************************************)
(* The point-load calculator of the suite (PointSpec): its inputs keep the *)
(* second dimension while the shape select hides the field.                *)
(***************************************************************************)

\* useState initial value of PointLoadCalculator
PointDefaults ==
    [appliedLoad |-> F(200), loadedShape |-> "circular", dim1 |-> F(125), dim2 |-> F(125),
     slabThickness |-> F(200)]

\* val !== '' && !isNaN(parseFloat(val)) && parseFloat(val) > 0; a cleared
\* field is held as NaN.
ValidField(val) == ~IsNaN(val) /\ Gt(val, 0)

isFormValid(in) ==
    /\ ValidField(in.appliedLoad) /\ ValidField(in.slabThickness) /\ ValidField(in.dim1)
    /\ in.loadedShape = "rectangular" => ValidField(in.dim2)

\* handleCalculate from the contact radius on: the object it stores in
\* outputs, without the two chart series.
PointStresses(shared, in, r_interior) ==
    LET P_tonnes == Div(in.appliedLoad, 9810)
        fc == shared.compressiveStrength
    IN \* l, b_interior and b_edge are bound once each
       LET l == calculateL(calculateEc(fc), in.slabThickness, shared.finalModulus)
           r_edge == Sqrt(Div(Mul(Mul(F(2), PI), Mul(r_interior, r_interior)), PI))
       IN [fr |-> calculateAllowableStress(fc, shared.loadApplicationTime, "<8000",
                                           shared.postTensionStress),
           sigma_i |-> Mul(calculateSingleInteriorStress(P_tonnes, in.slabThickness, l,
                               calculateB(r_interior, in.slabThickness)), LOAD_FACTOR),
           sigma_e |-> Mul(calculateSingleEdgeStress(P_tonnes, in.slabThickness, l,
                               calculateB(r_edge, in.slabThickness), shared.jointType),
                           LOAD_FACTOR),
           sigma_c |-> Mul(calculateSingleCornerStress(P_tonnes, in.slabThickness, l,
                               r_interior, shared.jointType), LOAD_FACTOR)]

handleCalculate(shared, in) ==
    PointStresses(shared, in, calculateRForPointLoad(in.loadedShape, in.dim1, in.dim2))

\* What the fields of the point calculator are set to: a cleared field is
\* NaN.
PointShapes == {"circular", "square", "rectangular"}
PointDims == {NaN, F(125), F(200)}
PointLoads == {F(60), F(200)}

\* The NavButton of the point calculator.
NavigatePoint ==
    /\ app = "suite" /\ page = "inputs" /\ ~SharedEffectPending
    /\ page' = "point"
    /\ inputs' = PointDefaults
    /\ outputs' = None
    /\ UNCHANGED << app, sharedInputs, isLoading, timer, searchVars, formulaVars,
                    standaloneVars >>

ReturnFromPoint ==
    /\ app = "suite" /\ page = "point"
    /\ page' = "inputs"
    /\ inputs' = None
    /\ outputs' = << >>
    /\ UNCHANGED << app, sharedInputs, isLoading, timer, searchVars, formulaVars,
                    standaloneVars >>

\* handleInputChange on a field the screen shows: dim2 is shown for the
\* rectangular shape only.
EditPoint ==
    /\ app = "suite" /\ page = "point"
    /\ \/ \E shape \in PointShapes : inputs' = [inputs EXCEPT !.loadedShape = shape]
       \/ \E dim1 \in PointDims : inputs' = [inputs EXCEPT !.dim1 = dim1]
       \/ /\ inputs.loadedShape = "rectangular"
          /\ \E dim2 \in PointDims : inputs' = [inputs EXCEPT !.dim2 = dim2]
       \/ \E appliedLoad \in PointLoads : inputs' = [inputs EXCEPT !.appliedLoad = appliedLoad]
    /\ UNCHANGED << app, page, sharedInputs, outputs, isLoading, timer, searchVars,
                    formulaVars, standaloneVars >>

\* The Calculate Stresses button, disabled while the form is not valid.
CalculatePoint ==
    /\ app = "suite" /\ page = "point" /\ isFormValid(inputs)
    /\ outputs' = handleCalculate(sharedInputs, inputs)
    /\ UNCHANGED << app, page, sharedInputs, inputs, isLoading, timer, searchVars,
                    formulaVars, standaloneVars >>

PointNext ==
    \/ RunSharedEffect \/ NavigatePoint \/ ReturnFromPoint \/ EditPoint \/ CalculatePoint

PointInit == CalcInit /\ app = "suite"

PointSpec == PointInit /\ [][PointNext]_vars

(***************************************************************************)
(* Properties of the point-load calculator (PointSpec).                    *)
(***************************************************************************)

\* The area of the footprint the screen shows: the square has one side.
FootprintArea(in) ==
    IF in.loadedShape = "square" THEN Mul(in.dim1, in.dim1) ELSE Mul(in.dim1, in.dim2)

\* This step stored the stresses of a square or rectangular footprint.
StoresFootprintStresses ==
    /\ page = "point" /\ page' = "point" /\ inputs' = inputs
    /\ inputs.loadedShape # "circular"
    /\ outputs' # outputs

\* C20: for a square or rectangular footprint the stresses are those of the
\* contact radius sqrt(area / pi), where the area of a square is its side
\* times its side, whatever the hidden second dimension holds.
C20_SquareAreaFromSide ==
    [][StoresFootprintStresses
          => outputs' = PointStresses(sharedInputs, inputs,
                                      Sqrt(Div(FootprintArea(inputs), PI)))]_vars

====
